---- MODULE Spec2Model ----
(***************************************************************************)
(* Model of the Lightspeed sales aggregation of                             *)
(* src/lightspeed-intelligence.js: the date windows, the POS query,         *)
(* getSalesMetrics, getTopProducts and getComparison, driven by a POS       *)
(* database that the shop changes and a clock that advances while a         *)
(* request is in flight.                                                    *)
(*                                                                          *)
(* Conventions                                                              *)
(*  - an instant is a number of seconds since the epoch (UTC);              *)
(*  - a wall clock is an instant shifted by a zone offset;                  *)
(*  - money is in whole dollars, quantities are whole units;                *)
(*  - a quotient computed by the code in floating point is kept as the      *)
(*    exact fraction [num, den];                                            *)
(*  - a JS string that the code searches is a sequence of characters;       *)
(*  - an optional JSON field is a record field that may be missing.         *)
(***************************************************************************)
EXTENDS Integers, Sequences, FiniteSets, TLC

(***************************************************************************)
(* Bounds of the model                                                      *)
(***************************************************************************)
MaxSales == 2
MaxTicks == 1
MaxLimit == 2
StartDay == 100

(***************************************************************************)
(* Time                                                                     *)
(***************************************************************************)
HOUR == 60 * 60
DAY == 24 * HOUR
HoursInDay == 24

At(day, hour) == day * DAY + hour * HOUR

\* UTC offset of the business timezone America/New_York: EDT or EST
BizOffset(dst) == IF dst THEN -(4 * HOUR) ELSE -(5 * HOUR)

\* UTC offset of the zone the host process runs in
HostZones == {"UTC", "America/New_York"}
HostOffset(zone, dst) == IF zone = "UTC" THEN 0 ELSE BizOffset(dst)

\* now.toLocaleString('en-US', {timeZone}) : the wall clock of the business zone
ToBusinessWall(instant, dst) == instant + BizOffset(dst)

\* startDate.setDate(getDate() - daysAgo); startDate.setHours(0, 0, 0, 0)
StartWall(estWall, daysAgo) == ((estWall \div DAY) - daysAgo) * DAY

\* endDate.setDate(getDate() + daysSpan); endDate.setHours(23, 59, 59, 999);
\* formatDate prints whole seconds
EndWall(startWall, daysSpan) ==
  (((startWall \div DAY) + daysSpan) * DAY) + 23 * HOUR + 59 * 60 + 59

\* formatDate appends the offset of the business zone: the instant the POS reads
FormatDate(wall, dst) == wall - BizOffset(dst)

getDateRange(instant, dst, daysAgo, daysSpan) ==
  LET estWall == ToBusinessWall(instant, dst)
      startWall == StartWall(estWall, daysAgo)
      endWall == EndWall(startWall, daysSpan)
  IN [start |-> FormatDate(startWall, dst), end |-> FormatDate(endWall, dst),
      \* the call, kept with the window for reference
      daysAgo |-> daysAgo, daysSpan |-> daysSpan, at |-> instant]

\* new Date(sale.completeTime).getHours() : hour of day in the host's zone
GetHours(instant, zone, dst) == ((instant + HostOffset(zone, dst)) % DAY) \div HOUR

\* hour of day in the business zone
BusinessHour(instant, dst) == ((instant + BizOffset(dst)) % DAY) \div HOUR

(***************************************************************************)
(* Strings as character sequences                                           *)
(***************************************************************************)
Lower(c) ==
  CASE c = "D" -> "d" [] c = "O" -> "o" [] c = "U" -> "u" [] c = "E" -> "e"
    [] c = "G" -> "g" [] c = "H" -> "h" [] c = "C" -> "c" [] c = "J" -> "j"
    [] c = "S" -> "s" [] OTHER -> c

toLowerCase(s) == [i \in 1..Len(s) |-> Lower(s[i])]

includes(s, sub) ==
  \E k \in 0..(Len(s) - Len(sub)) : \A j \in 1..Len(sub) : s[k + j] = sub[j]

IsSpace(c) == c = " "

RECURSIVE trimLeft(_)
trimLeft(s) == IF s # <<>> /\ IsSpace(Head(s)) THEN trimLeft(Tail(s)) ELSE s

RECURSIVE trimRight(_)
trimRight(s) ==
  IF s # <<>> /\ IsSpace(s[Len(s)]) THEN trimRight(SubSeq(s, 1, Len(s) - 1)) ELSE s

trim(s) == trimRight(trimLeft(s))

sUberEats == <<"u", "b", "e", "r", "e", "a", "t", "s">>
sUberEatsSp == <<"u", "b", "e", "r", " ", "e", "a", "t", "s">>
sDoorDash == <<"d", "o", "o", "r", "d", "a", "s", "h">>
sGrubHub == <<"g", "r", "u", "b", "h", "u", "b">>
sCityHive == <<"c", "i", "t", "y", "h", "i", "v", "e">>

(***************************************************************************)
(* classifyChannel                                                          *)
(***************************************************************************)
Field(r, f, default) == IF f \in DOMAIN r THEN r[f] ELSE default

\* classifyChannel without the two toLowerCase()
classifyChannel_caseSensitive(sale) ==
  IF "Customer" \notin DOMAIN sale THEN "In-Store"
  ELSE LET firstName == Field(sale.Customer, "firstName", <<>>)
           lastName == Field(sale.Customer, "lastName", <<>>)
           fullName == trim(firstName \o <<" ">> \o lastName)
       IN IF includes(fullName, sUberEats) \/ includes(fullName, sUberEatsSp) THEN "UberEats"
          ELSE IF includes(fullName, sDoorDash) \/ firstName = sDoorDash THEN "DoorDash"
          ELSE IF includes(fullName, sGrubHub) THEN "GrubHub"
          ELSE IF includes(fullName, sCityHive) THEN "CityHive"
          ELSE "In-Store"

classifyChannel(sale) ==
  IF "Customer" \notin DOMAIN sale THEN "In-Store"
  ELSE LET firstName == toLowerCase(Field(sale.Customer, "firstName", <<>>))
           lastName == toLowerCase(Field(sale.Customer, "lastName", <<>>))
           fullName == trim(firstName \o <<" ">> \o lastName)
       IN IF includes(fullName, sUberEats) \/ includes(fullName, sUberEatsSp) THEN "UberEats"
          ELSE IF includes(fullName, sDoorDash) \/ firstName = sDoorDash THEN "DoorDash"
          ELSE IF includes(fullName, sGrubHub) THEN "GrubHub"
          ELSE IF includes(fullName, sCityHive) THEN "CityHive"
          ELSE "In-Store"

(***************************************************************************)
(* Raw POS records                                                          *)
(***************************************************************************)
nDoorDash == <<"D", "o", "o", "r", "D", "a", "s", "h">>
nOrders == <<"O", "r", "d", "e", "r", "s">>
nJo == <<"J", "o">>
nHughes == <<"H", "u", "g", "h", "e", "s">>

\* SaleLines.SaleLine is a bare object for one line and an array otherwise
OneLine(line) == [SaleLine |-> [isArray |-> FALSE, v |-> line]]
ManyLines(lines) == [SaleLine |-> [isArray |-> TRUE, v |-> lines]]

\* an item id that is a canonical array index ("17") or any other string ("sku-17")
IndexId(n) == [index |-> TRUE, n |-> n]
NameId(n) == [index |-> FALSE, n |-> n]

\* the sales the shop can record; the POS numbers them in the order of completion
SaleCatalog == {
  \* a sale of the week before
  [saleID |-> 1, voided |-> "false", calcTotal |-> 44, completeTime |-> At(StartDay - 7, 20),
   SaleLines |-> ManyLines(<<
      [itemID |-> NameId(2), unitQuantity |-> 4, calcSubtotal |-> 40, avgCost |-> 5,
       Item |-> [description |-> "Tonic"]]>>)],
  \* delivery order of the evening before, two lines
  [saleID |-> 2, voided |-> "false", calcTotal |-> 27, completeTime |-> At(StartDay - 1, 23),
   Customer |-> [firstName |-> nDoorDash, lastName |-> nOrders],
   SaleLines |-> ManyLines(<<
      [itemID |-> IndexId(7), unitQuantity |-> 2, calcSubtotal |-> 20, fifoCost |-> 8,
       avgCost |-> 9, Item |-> [description |-> "Cabernet"]],
      [itemID |-> NameId(1), unitQuantity |-> 1, calcSubtotal |-> 5]>>)],
  \* positive total whose only line is a return (negative quantity and subtotal):
  \* the code never compares a sale's total with its lines
  [saleID |-> 3, voided |-> "false", calcTotal |-> 12, completeTime |-> At(StartDay, 13),
   Customer |-> [firstName |-> nJo, lastName |-> nHughes],
   SaleLines |-> OneLine([itemID |-> IndexId(3), unitQuantity |-> -1, calcSubtotal |-> -30,
                          fifoCost |-> 12, Item |-> [description |-> "Merlot"]])],
  \* voided sale of total 50
  [saleID |-> 4, voided |-> "true", calcTotal |-> 50, completeTime |-> At(StartDay, 15),
   SaleLines |-> OneLine([itemID |-> IndexId(7), unitQuantity |-> 1, calcSubtotal |-> 50,
                          fifoCost |-> 20, Item |-> [description |-> "Cabernet"]])],
  \* valid sale, line subtotal 30 and cost 10
  [saleID |-> 5, voided |-> "false", calcTotal |-> 32, completeTime |-> At(StartDay, 15),
   SaleLines |-> OneLine([itemID |-> IndexId(3), unitQuantity |-> 1, calcSubtotal |-> 30,
                          fifoCost |-> 10, Item |-> [description |-> "Merlot"]])],
  \* non-voided sale of total 0 that carries a line item
  [saleID |-> 6, voided |-> "false", calcTotal |-> 0, completeTime |-> At(StartDay, 16),
   SaleLines |-> OneLine([itemID |-> NameId(1), unitQuantity |-> 2, calcSubtotal |-> 15,
                          avgCost |-> 4])]
}

(***************************************************************************)
(* The POS endpoint Sale.json and getSales                                  *)
(***************************************************************************)
\* completeTime=><,start,end : the sales completed between start and end
InWindow(sale, range) == range.start <= sale.completeTime /\ sale.completeTime <= range.end

\* the body of the response: no Sale field, a bare record, or an array
PosResponse(store, range) ==
  LET matching == SelectSeq(store, LAMBDA s : InWindow(s, range))
  IN IF Len(matching) = 0 THEN [count |-> 0]
     ELSE IF Len(matching) = 1 THEN [count |-> 1, Sale |-> [isArray |-> FALSE, v |-> matching[1]]]
     ELSE [count |-> Len(matching), Sale |-> [isArray |-> TRUE, v |-> matching]]

\* Array.isArray(x) ? x : []
AsArray_arrayOnly(r, f) ==
  IF f \notin DOMAIN r THEN <<>>
  ELSE IF r[f].isArray THEN r[f].v ELSE <<>>

\* Array.isArray(x) ? x : (x ? [x] : [])
AsArray(r, f) ==
  IF f \notin DOMAIN r THEN <<>>
  ELSE IF r[f].isArray THEN r[f].v ELSE <<r[f].v>>

getSales(store, instant, dst, daysAgo, daysSpan) ==
  LET dateRange == getDateRange(instant, dst, daysAgo, daysSpan)
      data == PosResponse(store, dateRange)
      sales == AsArray(data, "Sale")
  IN [sales |-> sales, dateRange |-> dateRange, count |-> Len(sales)]

\* sale.SaleLines && sale.SaleLines.SaleLine, normalised to an array
LinesOf(sale) == IF "SaleLines" \in DOMAIN sale THEN AsArray(sale.SaleLines, "SaleLine") ELSE <<>>

(***************************************************************************)
(* getSalesMetrics                                                          *)
(***************************************************************************)
\* an exact quotient n / d
Frac(n, d) == [num |-> n, den |-> d]
FracZero == Frac(0, 1)
FracEq(a, b) == a.num * b.den = b.num * a.den
FracSub(a, b) == Frac(a.num * b.den - b.num * a.den, a.den * b.den)
FracSign(a) == IF a.num = 0 THEN 0 ELSE IF (a.num > 0) = (a.den > 0) THEN 1 ELSE -1

Hours == 0..(HoursInDay - 1)

\* sale.voided === true : never equal to the string the API sends
IsVoided_booleanTest(sale) == FALSE

\* sale.voided === 'true'
IsVoided(sale) == sale.voided = "true"

\* parseFloat(sale.calcTotal || 0)
TotalOf(sale) == Field(sale, "calcTotal", 0)

\* if (total < 0) return
SkippedForTotal_negativeOnly(total) == total < 0

\* if (total <= 0) return
SkippedForTotal(total) == total <= 0

\* parseFloat(line.fifoCost || line.avgCost || 0), not multiplied by qty
LineCost_unitOnly(line, qty) ==
  IF "fifoCost" \in DOMAIN line THEN line.fifoCost ELSE Field(line, "avgCost", 0)

\* parseFloat(line.fifoCost || line.avgCost || 0) * qty
LineCost(line, qty) ==
  (IF "fifoCost" \in DOMAIN line THEN line.fifoCost ELSE Field(line, "avgCost", 0)) * qty

\* the callback of lines.forEach in getSalesMetrics
MetricsLine(acc, line) ==
  LET qty == Field(line, "unitQuantity", 0)
      revenue == Field(line, "calcSubtotal", 0)
      cost == LineCost(line, qty)
  IN [acc EXCEPT !.totalRevenue = @ + revenue, !.totalCost = @ + cost, !.totalItems = @ + qty]

RECURSIVE MetricsLines(_, _)
MetricsLines(acc, lines) ==
  IF lines = <<>> THEN acc ELSE MetricsLines(MetricsLine(acc, Head(lines)), Tail(lines))

\* channels[channel] = 1 in place of the increment
CountChannel_overwrite(channels, channel) ==
  IF channel \in DOMAIN channels THEN [channels EXCEPT ![channel] = 1]
  ELSE channels @@ (channel :> 1)

\* channels[channel] = (channels[channel] || 0) + 1
CountChannel(channels, channel) ==
  IF channel \in DOMAIN channels THEN [channels EXCEPT ![channel] = @ + 1]
  ELSE channels @@ (channel :> 1)

\* the callback of sales.forEach in getSalesMetrics, with the line loop before
\* the test of the total
MetricsSale_linesBeforeTotalTest(acc, sale, zone, dst) ==
  IF IsVoided(sale) THEN acc
  ELSE LET withLines == MetricsLines(acc, LinesOf(sale))
       IN IF SkippedForTotal(TotalOf(sale)) THEN withLines
          ELSE [withLines EXCEPT
                  !.totalTransactions = @ + 1,
                  !.channels = CountChannel(@, classifyChannel(sale)),
                  !.hourly[GetHours(sale.completeTime, zone, dst)] = @ + 1]

\* the callback of sales.forEach in getSalesMetrics
MetricsSale(acc, sale, zone, dst) ==
  IF IsVoided(sale) THEN acc
  ELSE IF SkippedForTotal(TotalOf(sale)) THEN acc
  ELSE LET counted == [acc EXCEPT
                         !.totalTransactions = @ + 1,
                         !.channels = CountChannel(@, classifyChannel(sale)),
                         !.hourly[GetHours(sale.completeTime, zone, dst)] = @ + 1]
       IN MetricsLines(counted, LinesOf(sale))

RECURSIVE MetricsSales(_, _, _, _)
MetricsSales(acc, sales, zone, dst) ==
  IF sales = <<>> THEN acc
  ELSE MetricsSales(MetricsSale(acc, Head(sales), zone, dst), Tail(sales), zone, dst)

\* Math.max(...hourly)
MaxOf(hourly) == CHOOSE m \in {hourly[h] : h \in Hours} : \A h \in Hours : hourly[h] <= m

\* hourly.lastIndexOf(max)
PeakHour_lastIndexOf(hourly) ==
  CHOOSE h \in Hours : hourly[h] = MaxOf(hourly) /\ \A g \in Hours : g > h => hourly[g] # MaxOf(hourly)

\* hourly.indexOf(Math.max(...hourly))
RECURSIVE IndexOfFrom(_, _, _)
IndexOfFrom(hourly, value, h) ==
  IF h >= HoursInDay THEN -1
  ELSE IF hourly[h] = value THEN h ELSE IndexOfFrom(hourly, value, h + 1)

PeakHour(hourly) == IndexOfFrom(hourly, MaxOf(hourly), 0)

\* totalRevenue >= 0 ? (profit / totalRevenue) * 100 : 0, the quotient by 0 kept as such
ProfitMargin_noZeroGuard(profit, totalRevenue) ==
  IF totalRevenue >= 0 THEN Frac(profit * 100, totalRevenue) ELSE FracZero

\* totalRevenue > 0 ? (profit / totalRevenue) * 100 : 0
ProfitMargin(profit, totalRevenue) ==
  IF totalRevenue > 0 THEN Frac(profit * 100, totalRevenue) ELSE FracZero

\* totalTransactions > 0 ? x / totalTransactions : 0
PerTransaction(x, totalTransactions) ==
  IF totalTransactions > 0 THEN Frac(x, totalTransactions) ELSE FracZero

\* startDate.toLocaleDateString('en-US', {timeZone}) : the business date of the
\* instant whose host wall clock is the window's start
DateStr(dateRange, zone, dst) ==
  ((dateRange.start + BizOffset(dst)) - HostOffset(zone, dst) + BizOffset(dst)) \div DAY

MetricsInit ==
  [totalRevenue |-> 0, totalCost |-> 0, totalTransactions |-> 0, totalItems |-> 0,
   channels |-> <<>>, hourly |-> [h \in Hours |-> 0]]

\* the part of getSalesMetrics after the await of getSales
SalesMetricsOf(sales, dateRange, zone, dst) ==
  LET acc == MetricsSales(MetricsInit, sales, zone, dst)
      profit == acc.totalRevenue - acc.totalCost
  IN [dateRange |-> DateStr(dateRange, zone, dst),
      totalRevenue |-> acc.totalRevenue,
      totalCost |-> acc.totalCost,
      profit |-> profit,
      profitMargin |-> ProfitMargin(profit, acc.totalRevenue),
      totalTransactions |-> acc.totalTransactions,
      totalItems |-> acc.totalItems,
      avgSale |-> PerTransaction(acc.totalRevenue, acc.totalTransactions),
      avgItems |-> PerTransaction(acc.totalItems, acc.totalTransactions),
      channels |-> acc.channels,
      hourly |-> acc.hourly,
      peakHour |-> PeakHour(acc.hourly)]

(***************************************************************************)
(* getTopProducts                                                           *)
(***************************************************************************)
\* index of the entry of productSales with this key, 0 when there is none
RECURSIVE FindKey(_, _, _)
FindKey(productSales, itemId, i) ==
  IF i > Len(productSales) THEN 0
  ELSE IF productSales[i].itemId = itemId THEN i ELSE FindKey(productSales, itemId, i + 1)

\* line.Item?.description || 'Unknown'
DescriptionOf(line) ==
  IF "Item" \in DOMAIN line THEN Field(line.Item, "description", "Unknown") ELSE "Unknown"

\* the callback of lines.forEach if it returned early on a line without
\* description
TopLine_describedOnly(productSales, line) ==
  LET itemId == line.itemID
      at == FindKey(productSales, itemId, 1)
      withKey == IF at = 0
                 THEN Append(productSales, [itemId |-> itemId, description |-> DescriptionOf(line),
                                            quantity |-> 0, revenue |-> 0])
                 ELSE productSales
      k == IF at = 0 THEN Len(withKey) ELSE at
  IN IF DescriptionOf(line) = "Unknown" THEN productSales
     ELSE [withKey EXCEPT ![k].quantity = @ + Field(line, "unitQuantity", 0),
                          ![k].revenue = @ + Field(line, "calcSubtotal", 0)]

\* the callback of lines.forEach in getTopProducts; productSales is kept in
\* the order in which its keys were created
TopLine(productSales, line) ==
  LET itemId == line.itemID
      qty == Field(line, "unitQuantity", 0)
      revenue == Field(line, "calcSubtotal", 0)
      at == FindKey(productSales, itemId, 1)
      withKey == IF at = 0
                 THEN Append(productSales, [itemId |-> itemId, description |-> DescriptionOf(line),
                                            quantity |-> 0, revenue |-> 0])
                 ELSE productSales
      k == IF at = 0 THEN Len(withKey) ELSE at
  IN [withKey EXCEPT ![k].quantity = @ + qty, ![k].revenue = @ + revenue]

RECURSIVE TopLines(_, _)
TopLines(productSales, lines) ==
  IF lines = <<>> THEN productSales ELSE TopLines(TopLine(productSales, Head(lines)), Tail(lines))

\* getTopProducts with the total test of getSalesMetrics
TopSale_positiveTotalOnly(productSales, sale) ==
  IF IsVoided(sale) \/ SkippedForTotal(TotalOf(sale)) THEN productSales
  ELSE TopLines(productSales, LinesOf(sale))

\* the callback of sales.forEach in getTopProducts
TopSale(productSales, sale) ==
  IF IsVoided(sale) THEN productSales ELSE TopLines(productSales, LinesOf(sale))

RECURSIVE TopSales(_, _)
TopSales(productSales, sales) ==
  IF sales = <<>> THEN productSales ELSE TopSales(TopSale(productSales, Head(sales)), Tail(sales))

\* insertion of the pair e = <<key, value>> into pairs of ascending key, after
\* the pairs of the same key
RECURSIVE InsertSorted(_, _)
InsertSorted(sorted, e) ==
  IF sorted = <<>> THEN <<e>>
  ELSE IF e[1] < Head(sorted)[1] THEN <<e>> \o sorted
  ELSE <<Head(sorted)>> \o InsertSorted(Tail(sorted), e)

RECURSIVE SortPairs(_)
SortPairs(pairs) ==
  IF pairs = <<>> THEN <<>>
  ELSE InsertSorted(SortPairs(SubSeq(pairs, 1, Len(pairs) - 1)), pairs[Len(pairs)])

\* Array.prototype.sort on pairs <<key, value>> compared by key: a stable sort;
\* the values in their sorted order
SortedValues(pairs) ==
  LET sorted == SortPairs(pairs) IN [i \in 1..Len(pairs) |-> sorted[i][2]]

\* Object.values as if every key were listed in the order of its creation
ObjectValues_insertionOrder(productSales) == productSales

\* Object.values: the keys that are array indices in ascending order, then
\* the other keys in the order of their creation
ObjectValues(productSales) ==
  LET indexed == SelectSeq(productSales, LAMBDA e : e.itemId.index)
  IN SortedValues([i \in 1..Len(indexed) |-> <<indexed[i].itemId.n, indexed[i]>>])
     \o SelectSeq(productSales, LAMBDA e : ~e.itemId.index)

\* sort((a, b) => a.revenue - b.revenue)
SortByRevenue_ascending(entries) ==
  SortedValues([i \in 1..Len(entries) |-> <<entries[i].revenue, entries[i]>>])

\* sort((a, b) => b.revenue - a.revenue)
SortByRevenue(entries) ==
  SortedValues([i \in 1..Len(entries) |-> <<-entries[i].revenue, entries[i]>>])

\* slice(0, limit)
Slice(seq, limit) == SubSeq(seq, 1, IF limit < Len(seq) THEN limit ELSE Len(seq))

\* the part of getTopProducts after the await of getSales
TopProductsOf(sales, limit) ==
  Slice(SortByRevenue(ObjectValues(TopSales(<<>>, sales))), limit)

(***************************************************************************)
(* getComparison                                                            *)
(***************************************************************************)
Periods == {"daily", "weekly", "monthly"}

\* the (daysAgo, daysSpan) of the current window of a period
CurrentWindow(period) ==
  CASE period = "daily" -> <<0, 1>> [] period = "weekly" -> <<0, 7>> [] period = "monthly" -> <<0, 30>>

\* the (daysAgo, daysSpan) of the previous window of a period
PreviousWindow(period) ==
  CASE period = "daily" -> <<1, 1>> [] period = "weekly" -> <<7, 7>> [] period = "monthly" -> <<30, 30>>

\* previous >= 0 ? ((current - previous) / previous) * 100 : 0, the quotient by 0 kept as such
PercentChange_noZeroGuard(current, previous) ==
  IF previous >= 0 THEN Frac((current - previous) * 100, previous) ELSE FracZero

\* previous > 0 ? (current - previous) / previous : 0, the ratio not scaled to percent
PercentChange_ratioOnly(current, previous) ==
  IF previous > 0 THEN Frac(current - previous, previous) ELSE FracZero

\* previous > 0 ? ((current - previous) / previous) * 100 : 0
PercentChange(current, previous) ==
  IF previous > 0 THEN Frac((current - previous) * 100, previous) ELSE FracZero

\* the part of getComparison after both awaits
ComparisonOf(current, previous) ==
  [current |-> current, previous |-> previous,
   changes |-> [revenue |-> PercentChange(current.totalRevenue, previous.totalRevenue),
                transactions |-> PercentChange(current.totalTransactions, previous.totalTransactions),
                avgSale |-> FracSub(current.avgSale, previous.avgSale)]]

(***************************************************************************)
(* State                                                                    *)
(***************************************************************************)
VARIABLES
  lightspeedIntelligence, \* the bot's instance of the class, "null" without POS configuration
  db,        \* the sales recorded by the POS, in the order the API lists them
  now,       \* the clock: new Date()
  hostZone,  \* the timezone of the host process
  isDST,     \* whether the business zone is on daylight time (EDT)
  pc,        \* "idle", "previous" between the two awaits of getComparison,
             \* "fetching" and "asking" at the awaits of processWithClaude
  pending,   \* what the call in flight holds across its awaits
  result     \* what the last completed call returned, with what it fetched

vars == <<lightspeedIntelligence, db, now, hostZone, isDST, pc, pending, result>>

StartInstant == At(StartDay, 17)
TickLength == 12 * HOUR

NoPending == [period |-> "none"]
NoResult == [op |-> "none"]

\* the windows getSalesMetrics and getTopProducts are called with by the
\* router and the bot
CalledWindows == {<<0, 1>>, <<0, 7>>}

Init ==
  /\ lightspeedIntelligence = "instance"
  /\ db = <<>>
  /\ now = StartInstant
  /\ hostZone \in HostZones
  /\ isDST \in BOOLEAN
  /\ pc = "idle"
  /\ pending = NoPending
  /\ result = NoResult

(***************************************************************************)
(* The environment: the shop and the clock                                  *)
(***************************************************************************)
\* The shop and the clock move at the awaits of a call.  A returned value is
\* consumed by the continuation of its caller before anything else runs
\* (Return), so nothing moves while result holds a value.
\* a sale is completed at the shop
PosAddSale(s) ==
  /\ result = NoResult
  /\ Len(db) < MaxSales
  /\ s.completeTime <= now
  /\ \A i \in 1..Len(db) : db[i].saleID < s.saleID
  /\ db' = Append(db, s)
  /\ UNCHANGED <<lightspeedIntelligence, now, hostZone, isDST, pc, pending, result>>

\* a completed sale is voided at the shop
PosVoidSale ==
  /\ result = NoResult
  /\ \E i \in 1..Len(db) :
       /\ db[i].voided = "false"
       /\ db' = [db EXCEPT ![i].voided = "true"]
  /\ UNCHANGED <<lightspeedIntelligence, now, hostZone, isDST, pc, pending, result>>

Tick ==
  /\ result = NoResult
  /\ now < StartInstant + MaxTicks * TickLength
  /\ now' = now + TickLength
  /\ UNCHANGED <<lightspeedIntelligence, db, hostZone, isDST, pc, pending, result>>

(***************************************************************************)
(* The calls                                                                *)
(***************************************************************************)
\* getSales followed by the aggregation of getSalesMetrics
FetchMetrics(daysAgo, daysSpan) ==
  LET got == getSales(db, now, isDST, daysAgo, daysSpan)
  IN [sales |-> got.sales, dateRange |-> got.dateRange, count |-> got.count,
      metrics |-> SalesMetricsOf(got.sales, got.dateRange, hostZone, isDST)]

GetSalesMetrics(daysAgo, daysSpan) ==
  /\ pc = "idle" /\ result = NoResult
  /\ result' = [op |-> "getSalesMetrics"] @@ FetchMetrics(daysAgo, daysSpan)
  /\ UNCHANGED <<lightspeedIntelligence, db, now, hostZone, isDST, pc, pending>>

GetTopProducts(daysAgo, daysSpan, limit) ==
  /\ pc = "idle" /\ result = NoResult
  /\ LET got == getSales(db, now, isDST, daysAgo, daysSpan)
     IN result' = [op |-> "getTopProducts", sales |-> got.sales, dateRange |-> got.dateRange,
                   limit |-> limit, top |-> TopProductsOf(got.sales, limit)]
  /\ UNCHANGED <<lightspeedIntelligence, db, now, hostZone, isDST, pc, pending>>

\* getComparison up to its second await
GetComparisonCurrent(period) ==
  /\ pc = "idle" /\ result = NoResult
  /\ pc' = "previous"
  /\ pending' = [period |-> period,
                 current |-> FetchMetrics(CurrentWindow(period)[1], CurrentWindow(period)[2])]
  /\ UNCHANGED <<lightspeedIntelligence, db, now, hostZone, isDST, result>>

\* getComparison from its second await to its return
GetComparisonPrevious ==
  /\ pc = "previous"
  /\ LET w == PreviousWindow(pending.period)
         previous == FetchMetrics(w[1], w[2])
     IN result' = [op |-> "getComparison", period |-> pending.period,
                   current |-> pending.current, previous |-> previous,
                   comparison |-> ComparisonOf(pending.current.metrics, previous.metrics)]
  /\ pc' = "idle"
  /\ pending' = NoPending
  /\ UNCHANGED <<lightspeedIntelligence, db, now, hostZone, isDST>>

\* the caller's continuation runs to completion with the returned value
Return ==
  /\ result # NoResult
  /\ result' = NoResult
  /\ UNCHANGED <<lightspeedIntelligence, db, now, hostZone, isDST, pc, pending>>

Next ==
  \/ \E s \in SaleCatalog : PosAddSale(s)
  \/ PosVoidSale
  \/ Tick
  \/ \E w \in CalledWindows : GetSalesMetrics(w[1], w[2])
  \/ \E w \in CalledWindows, limit \in 1..MaxLimit : GetTopProducts(w[1], w[2], limit)
  \/ \E period \in Periods : GetComparisonCurrent(period)
  \/ GetComparisonPrevious
  \/ Return

Spec == Init /\ [][Next]_vars

(***************************************************************************)
(* classifyChannel on its own: the customers a sale can carry               *)
(***************************************************************************)
nDoor == <<"D", "o", "o", "r">>
nDash == <<"D", "a", "s", "h">>
nUber == <<"U", "b", "e", "r">>
nEats == <<"E", "a", "t", "s">>
nUberEats == <<"U", "b", "e", "r", "E", "a", "t", "s">>
nGrubHub == <<"G", "r", "u", "b", "H", "u", "b">>
nCityHive == <<"C", "i", "t", "y", "H", "i", "v", "e">>

FirstNames == {nDoorDash, nDoor, nUber, nUberEats, nGrubHub, nJo}
LastNames == {nOrders, nDash, nEats, nCityHive, nHughes}

\* the Customer relation of a sale: both names, one of them, or none
CustomerSamples ==
  {[firstName |-> f, lastName |-> l] : f \in FirstNames, l \in LastNames}
  \cup {[firstName |-> f] : f \in FirstNames}
  \cup {[lastName |-> l] : l \in LastNames}

WalkIn == [saleID |-> 9, voided |-> "false", calcTotal |-> 20, completeTime |-> StartInstant]

ChannelSamples == {WalkIn} \cup {WalkIn @@ [Customer |-> c] : c \in CustomerSamples}

ClassifyChannel(sale) ==
  /\ pc = "idle" /\ result = NoResult
  /\ result' = [op |-> "classifyChannel", sale |-> sale, channel |-> classifyChannel(sale)]
  /\ UNCHANGED <<lightspeedIntelligence, db, now, hostZone, isDST, pc, pending>>

ChannelNext ==
  \/ \E sale \in ChannelSamples : ClassifyChannel(sale)
  \/ Return

ChannelSpec == Init /\ [][ChannelNext]_vars

(***************************************************************************)
(* getTopProducts on its own: the sales of one day in any order             *)
(***************************************************************************)
RankTime == At(StartDay, 14)

\* the sales of the day the ranking is asked for
RankCatalog == {
  \* items A (50) and B (120)
  [saleID |-> 11, voided |-> "false", calcTotal |-> 170, completeTime |-> RankTime,
   SaleLines |-> ManyLines(<<
      [itemID |-> NameId(1), unitQuantity |-> 1, calcSubtotal |-> 50,
       Item |-> [description |-> "Tonic"]],
      [itemID |-> NameId(2), unitQuantity |-> 2, calcSubtotal |-> 120,
       Item |-> [description |-> "Gin"]]>>)],
  \* item C (80)
  [saleID |-> 12, voided |-> "false", calcTotal |-> 80, completeTime |-> RankTime,
   SaleLines |-> OneLine([itemID |-> NameId(3), unitQuantity |-> 1, calcSubtotal |-> 80,
                          Item |-> [description |-> "Rum"]])],
  \* two items of equal revenue whose ids are array indices, the larger id first
  [saleID |-> 13, voided |-> "false", calcTotal |-> 100, completeTime |-> RankTime,
   SaleLines |-> ManyLines(<<
      [itemID |-> IndexId(7), unitQuantity |-> 1, calcSubtotal |-> 50,
       Item |-> [description |-> "Cabernet"]],
      [itemID |-> IndexId(3), unitQuantity |-> 1, calcSubtotal |-> 50,
       Item |-> [description |-> "Merlot"]]>>)],
  \* total 0; a line of item A without the Item relation and an item of the
  \* same revenue
  [saleID |-> 14, voided |-> "false", calcTotal |-> 0, completeTime |-> RankTime,
   SaleLines |-> ManyLines(<<
      [itemID |-> NameId(1), unitQuantity |-> 1, calcSubtotal |-> 30],
      [itemID |-> NameId(4), unitQuantity |-> 2, calcSubtotal |-> 30,
       Item |-> [description |-> "Lime"]]>>)],
  \* voided sale of item B
  [saleID |-> 15, voided |-> "true", calcTotal |-> 100, completeTime |-> RankTime,
   SaleLines |-> OneLine([itemID |-> NameId(2), unitQuantity |-> 1, calcSubtotal |-> 100,
                          Item |-> [description |-> "Gin"]])],
  \* an item whose Item relation has no description
  [saleID |-> 16, voided |-> "false", calcTotal |-> 80, completeTime |-> RankTime,
   SaleLines |-> OneLine([itemID |-> IndexId(5), unitQuantity |-> 3, calcSubtotal |-> 80,
                          Item |-> [archived |-> "false"]])]
}

\* the responses of Sale.json: distinct sales of the day in any order
RankStores ==
  UNION {{s \in [1..n -> RankCatalog] : \A i, j \in 1..n : s[i] = s[j] => i = j} : n \in 0..MaxSales}

RankInit ==
  /\ lightspeedIntelligence = "instance"
  /\ db \in RankStores
  /\ now = StartInstant
  /\ hostZone \in HostZones
  /\ isDST \in BOOLEAN
  /\ pc = "idle"
  /\ pending = NoPending
  /\ result = NoResult

RankNext ==
  \/ \E limit \in 1..MaxLimit : GetTopProducts(0, 1, limit)
  \/ Return

RankSpec == RankInit /\ [][RankNext]_vars

(***************************************************************************)
(* The bot: processWithClaude and getTodaysSalesSummary                     *)
(***************************************************************************)
\* a settled promise
Fulfilled(v) == [settled |-> "fulfilled", value |-> v]
Rejected(e) == [settled |-> "rejected", reason |-> e]
\* a promise fulfilled with null
Null == [settled |-> "fulfilled", null |-> TRUE]
Unsettled == [settled |-> "pending"]
NotFetched == [settled |-> "none"]
Truthy(p) == p.settled = "fulfilled" /\ "value" \in DOMAIN p

\* the error query() logs and rethrows
PosError == "Lightspeed API Error"

keywords == <<
  <<"s", "a", "l", "e", "s">>,
  <<"r", "e", "v", "e", "n", "u", "e">>,
  <<"p", "r", "o", "f", "i", "t">>,
  <<"t", "r", "a", "n", "s", "a", "c", "t", "i", "o", "n">>,
  <<"c", "u", "s", "t", "o", "m", "e", "r">>,
  <<"p", "r", "o", "d", "u", "c", "t">>,
  <<"s", "e", "l", "l", "i", "n", "g">>,
  <<"t", "o", "d", "a", "y">>,
  <<"y", "e", "s", "t", "e", "r", "d", "a", "y">>,
  <<"w", "e", "e", "k">>,
  <<"m", "o", "n", "t", "h">>,
  <<"p", "e", "r", "f", "o", "r", "m", "a", "n", "c", "e">>,
  <<"c", "h", "a", "n", "n", "e", "l">>,
  <<"d", "e", "l", "i", "v", "e", "r", "y">>,
  <<"u", "b", "e", "r", "e", "a", "t", "s">>,
  <<"d", "o", "o", "r", "d", "a", "s", "h">>,
  <<"c", "o", "m", "p", "a", "r", "e">>,
  <<"t", "o", "p">>,
  <<"b", "e", "s", "t">>,
  <<"w", "o", "r", "s", "t">>,
  <<"a", "v", "e", "r", "a", "g", "e">>,
  <<"t", "o", "t", "a", "l">>,
  <<"m", "a", "r", "g", "i", "n">>,
  <<"c", "o", "s", "t">>,
  <<"p", "r", "i", "c", "e">>>>

\* keywords.some(keyword => lowerMessage.includes(keyword))
isBusinessQuery(message) ==
  LET lowerMessage == toLowerCase(message)
  IN \E k \in 1..Len(keywords) : includes(lowerMessage, keywords[k])

\* what users write to the bot
UserMessages == {<<"S", "a", "l", "e", "s", "?">>, <<"H", "e", "l", "l", "o">>}

\* getTopProducts(0, 1, 10) and topProducts.slice(0, 5)
TopFetched == 10
TopShown == 5

\* promise.catch(e => null) without its handler
CatchNull_rethrow(p) == p

\* promise.catch(e => null)
CatchNull(p) == IF p.settled = "rejected" THEN Null ELSE p

\* buildSystemPrompt(): the same text with and without POS configuration
buildSystemPrompt ==
  [says |-> "You have access to real-time business data from Lightspeed POS",
   unavailableNote |-> FALSE]

\* the lines of businessData written from todayMetrics
PerformanceSection(m) ==
  <<[title |-> "TODAY'S PERFORMANCE", revenue |-> m.totalRevenue,
     transactions |-> m.totalTransactions, avgSale |-> m.avgSale, profit |-> m.profit,
     profitMargin |-> m.profitMargin, items |-> m.totalItems, avgItems |-> m.avgItems,
     peakHour |-> m.peakHour]>>
  \o (IF DOMAIN m.channels # {}
      THEN <<[title |-> "CHANNEL BREAKDOWN",
              \* one line per channel; the order of the lines is not kept
              orders |-> [c \in DOMAIN m.channels |->
                            [count |-> m.channels[c],
                             percentage |-> Frac(m.channels[c] * 100, m.totalTransactions)]]]>>
      ELSE <<>>)

\* the lines of businessData written from comparison
ComparisonSection(c) ==
  <<[title |-> "COMPARED TO YESTERDAY", revenue |-> c.changes.revenue,
     transactions |-> c.changes.transactions, avgSale |-> c.changes.avgSale]>>

\* the lines of businessData written from topProducts
TopSection(top) ==
  IF Len(top) > 0
  THEN LET shown == Slice(top, TopShown)
       IN <<[title |-> "TOP SELLING PRODUCTS TODAY",
             products |-> [i \in 1..Len(shown) |->
                             [description |-> shown[i].description, revenue |-> shown[i].revenue,
                              quantity |-> shown[i].quantity]]]>>
  ELSE <<>>

BusinessData(todayMetrics, topProducts, comparison) ==
  (IF Truthy(todayMetrics) THEN PerformanceSection(todayMetrics.value) ELSE <<>>)
  \o (IF Truthy(comparison) THEN ComparisonSection(comparison.value) ELSE <<>>)
  \o (IF Truthy(topProducts) THEN TopSection(topProducts.value) ELSE <<>>)

\* the three values userPrompt can take
PlainPrompt(userMessage) == [kind |-> "plain", userMessage |-> userMessage]
LivePrompt(userMessage, businessData) ==
  [kind |-> "live", userMessage |-> userMessage, businessData |-> businessData]
NotePrompt(userMessage, message) ==
  [kind |-> "note", userMessage |-> userMessage, note |-> "Could not fetch live data",
   message |-> message]

\* the inner try block if it took the failure note whenever no data came back
UserPromptOf_noteWhenEmpty(userMessage, todayMetrics, topProducts, comparison) ==
  LET businessData == BusinessData(todayMetrics, topProducts, comparison)
  IN IF businessData # <<>> THEN LivePrompt(userMessage, businessData)
     ELSE NotePrompt(userMessage, PosError)

\* the inner try block after Promise.all, and its catch
UserPromptOf(userMessage, todayMetrics, topProducts, comparison) ==
  LET businessData == BusinessData(todayMetrics, topProducts, comparison)
  IN \* Promise.all rejects with the reason of a rejected promise
     IF todayMetrics.settled = "rejected" THEN NotePrompt(userMessage, todayMetrics.reason)
     ELSE IF topProducts.settled = "rejected" THEN NotePrompt(userMessage, topProducts.reason)
     ELSE IF comparison.settled = "rejected" THEN NotePrompt(userMessage, comparison.reason)
     ELSE IF businessData # <<>> THEN LivePrompt(userMessage, businessData)
     ELSE PlainPrompt(userMessage)

\* what the language model can write; nothing in the request decides whether
\* it mentions that there is no live data
LlmTexts == {[says |-> "answer", unavailableNote |-> b] : b \in BOOLEAN}

\* the outcomes of anthropic.messages.create
LlmOutcomes ==
  {Fulfilled([content |-> <<[text |-> t]>>]) : t \in LlmTexts}
  \cup {Fulfilled([content |-> <<>>]), Rejected("Anthropic API Error")}

\* response.content[0].text
FirstText(response) ==
  IF response.settled = "rejected" THEN response
  ELSE IF Len(response.value.content) = 0 THEN Rejected("TypeError")
  ELSE Fulfilled(response.value.content[1].text)

\* processWithClaude without its outer catch
OuterCatch_rethrow(p) == p

\* the outer catch of processWithClaude
OuterCatch(p) ==
  IF p.settled = "rejected"
  THEN Fulfilled([says |-> "Error processing your request", message |-> p.reason])
  ELSE p

\* the catch of getTodaysSalesSummary
SummaryCatch(p) ==
  IF p.settled = "rejected"
  THEN Fulfilled([says |-> "Error fetching sales data. Please check Lightspeed connection."])
  ELSE p

SummaryText(metrics) ==
  [says |-> "Today's Sales", transactions |-> metrics.totalTransactions,
   revenue |-> metrics.totalRevenue, avgSale |-> metrics.avgSale, profit |-> metrics.profit,
   profitMargin |-> metrics.profitMargin, items |-> metrics.totalItems,
   peakHour |-> metrics.peakHour]

Unavailable == [says |-> "Sales data unavailable - Lightspeed not configured."]

\* messages: with what an earlier call sent put before the user message
RequestMessages_withHistory(userPrompt) ==
  (IF result.op = "processWithClaude" THEN result.request.messages ELSE <<>>)
  \o <<[role |-> "user", content |-> userPrompt]>>

\* messages: [{ role: 'user', content: userPrompt }]
RequestMessages(userPrompt) == <<[role |-> "user", content |-> userPrompt]>>

\* the argument of anthropic.messages.create
MessagesCreate(userPrompt) ==
  [system |-> buildSystemPrompt, messages |-> RequestMessages(userPrompt)]

\* the bot starts with or without POS configuration
BotInit ==
  /\ lightspeedIntelligence \in {"null", "instance"}
  /\ db = <<>>
  /\ now = StartInstant
  /\ hostZone \in HostZones
  /\ isDST \in BOOLEAN
  /\ pc = "idle"
  /\ pending = NoPending
  /\ result = NoResult

\* processWithClaude from its entry to its first await; requests are the
\* requests sent to the language model so far in this call
EnterProcessWithClaude(userMessage, includeContext) ==
  /\ IF lightspeedIntelligence # "null" /\ (includeContext \/ isBusinessQuery(userMessage))
     THEN /\ pc' = "fetching"
          /\ pending' = [op |-> "processWithClaude", userMessage |-> userMessage,
                         todayMetrics |-> Unsettled, topProducts |-> Unsettled,
                         comparison |-> Unsettled, requests |-> <<>>]
     ELSE /\ pc' = "asking"
          /\ pending' = [op |-> "processWithClaude", userMessage |-> userMessage,
                         todayMetrics |-> NotFetched, topProducts |-> NotFetched,
                         comparison |-> NotFetched, userPrompt |-> PlainPrompt(userMessage),
                         requests |-> <<MessagesCreate(PlainPrompt(userMessage))>>]
  /\ UNCHANGED <<lightspeedIntelligence, db, now, hostZone, isDST, result>>

ProcessWithClaude(userMessage, includeContext) ==
  /\ pc = "idle" /\ result = NoResult
  /\ EnterProcessWithClaude(userMessage, includeContext)

\* getSalesMetrics(0, 1).catch(e => null) settles
SettleTodayMetrics ==
  /\ pc = "fetching" /\ pending.todayMetrics.settled = "pending"
  /\ \E ok \in BOOLEAN :
       pending' = [pending EXCEPT !.todayMetrics =
                     CatchNull(IF ok THEN Fulfilled(FetchMetrics(0, 1).metrics)
                               ELSE Rejected(PosError))]
  /\ UNCHANGED <<lightspeedIntelligence, db, now, hostZone, isDST, pc, result>>

\* getTopProducts(0, 1, 10).catch(e => null) settles
SettleTopProducts ==
  /\ pc = "fetching" /\ pending.topProducts.settled = "pending"
  /\ \E ok \in BOOLEAN :
       pending' = [pending EXCEPT !.topProducts =
                     CatchNull(IF ok
                               THEN Fulfilled(TopProductsOf(getSales(db, now, isDST, 0, 1).sales,
                                                            TopFetched))
                               ELSE Rejected(PosError))]
  /\ UNCHANGED <<lightspeedIntelligence, db, now, hostZone, isDST, pc, result>>

\* getComparison('daily').catch(e => null) settles; its two windows are read
\* from the store as it is at this step
SettleComparison ==
  /\ pc = "fetching" /\ pending.comparison.settled = "pending"
  /\ \E ok \in BOOLEAN :
       pending' = [pending EXCEPT !.comparison =
                     CatchNull(IF ok
                               THEN Fulfilled(ComparisonOf(
                                      FetchMetrics(CurrentWindow("daily")[1],
                                                   CurrentWindow("daily")[2]).metrics,
                                      FetchMetrics(PreviousWindow("daily")[1],
                                                   PreviousWindow("daily")[2]).metrics))
                               ELSE Rejected(PosError))]
  /\ UNCHANGED <<lightspeedIntelligence, db, now, hostZone, isDST, pc, result>>

\* Promise.all has settled: the prompt is built and the request is sent
BuildUserPrompt ==
  /\ pc = "fetching"
  /\ pending.todayMetrics.settled # "pending"
  /\ pending.topProducts.settled # "pending"
  /\ pending.comparison.settled # "pending"
  /\ pc' = "asking"
  /\ LET userPrompt == UserPromptOf(pending.userMessage, pending.todayMetrics,
                                    pending.topProducts, pending.comparison)
     IN pending' = [pending EXCEPT !.requests = Append(@, MessagesCreate(userPrompt))]
                     @@ [userPrompt |-> userPrompt]
  /\ UNCHANGED <<lightspeedIntelligence, db, now, hostZone, isDST, result>>

\* anthropic.messages.create settles and processWithClaude returns
CreateMessage ==
  /\ pc = "asking"
  /\ \E response \in LlmOutcomes :
       result' = [op |-> "processWithClaude", userMessage |-> pending.userMessage,
                  todayMetrics |-> pending.todayMetrics, topProducts |-> pending.topProducts,
                  comparison |-> pending.comparison,
                  requests |-> pending.requests,
                  request |-> pending.requests[Len(pending.requests)],
                  response |-> response,
                  outcome |-> OuterCatch(FirstText(response))]
  /\ pc' = "idle"
  /\ pending' = NoPending
  /\ UNCHANGED <<lightspeedIntelligence, db, now, hostZone, isDST>>

GetTodaysSalesSummary ==
  /\ pc = "idle" /\ result = NoResult
  /\ \E ok \in BOOLEAN :
       result' = [op |-> "getTodaysSalesSummary", ok |-> ok,
                  outcome |-> IF lightspeedIntelligence = "null" THEN Fulfilled(Unavailable)
                              ELSE SummaryCatch(IF ok
                                                THEN Fulfilled(SummaryText(FetchMetrics(0, 1).metrics))
                                                ELSE Rejected(PosError))]
  /\ UNCHANGED <<lightspeedIntelligence, db, now, hostZone, isDST, pc, pending>>

BotNext ==
  \/ \E s \in SaleCatalog : PosAddSale(s)
  \/ \E userMessage \in UserMessages, includeContext \in BOOLEAN :
       ProcessWithClaude(userMessage, includeContext)
  \/ SettleTodayMetrics
  \/ SettleTopProducts
  \/ SettleComparison
  \/ BuildUserPrompt
  \/ CreateMessage
  \/ GetTodaysSalesSummary
  \/ Return

BotSpec == BotInit /\ [][BotNext]_vars

(***************************************************************************)
(* Successive turns: the reply of the earlier call is still in result when  *)
(* the next event arrives                                                   *)
(***************************************************************************)
ProcessNextTurn(userMessage, includeContext) ==
  /\ pc = "idle" /\ result.op = "processWithClaude"
  /\ EnterProcessWithClaude(userMessage, includeContext)

TurnNext ==
  \/ \E userMessage \in UserMessages, includeContext \in BOOLEAN :
       ProcessWithClaude(userMessage, includeContext)
  \/ \E userMessage \in UserMessages, includeContext \in BOOLEAN :
       ProcessNextTurn(userMessage, includeContext)
  \/ SettleTodayMetrics
  \/ SettleTopProducts
  \/ SettleComparison
  \/ BuildUserPrompt
  \/ CreateMessage
  \/ Return

TurnSpec == BotInit /\ [][TurnNext]_vars

(***************************************************************************)
(* getIntelligentResponse                                                   *)
(***************************************************************************)
wToday == <<"t", "o", "d", "a", "y">>
wCompare == <<"c", "o", "m", "p", "a", "r", "e">>
wYesterday == <<"y", "e", "s", "t", "e", "r", "d", "a", "y">>
wTop == <<"t", "o", "p">>
wBest == <<"b", "e", "s", "t">>
wSelling == <<"s", "e", "l", "l", "i", "n", "g">>
wWeek == <<"w", "e", "e", "k">>
wChannel == <<"c", "h", "a", "n", "n", "e", "l">>
wDelivery == <<"d", "e", "l", "i", "v", "e", "r", "y">>

\* the questions put to the router
UserQuestions == {
  <<"t", "o", "d", "a", "y">>,
  <<"C", "o", "m", "p", "a", "r", "e", " ", "t", "o", "d", "a", "y">>,
  <<"y", "e", "s", "t", "e", "r", "d", "a", "y">>,
  <<"C", "o", "m", "p", "a", "r", "e">>,
  <<"b", "e", "s", "t", " ", "w", "e", "e", "k">>,
  <<"D", "e", "l", "i", "v", "e", "r", "y">>,
  <<"H", "e", "l", "l", "o">>,
  <<"S", "e", "l", "l", "i", "n", "g", " ", "t", "o", "d", "a", "y", " ", "b", "y", " ", "c", "h", "a", "n", "n", "e", "l">>}

\* the conditions of the five if statements
AsksToday(question) == includes(question, wToday)
AsksCompare(question) == includes(question, wCompare) \/ includes(question, wYesterday)
AsksTop(question) ==
  includes(question, wTop) \/ includes(question, wBest) \/ includes(question, wSelling)
AsksWeek(question) == includes(question, wWeek)
AsksChannel(question) == includes(question, wChannel) \/ includes(question, wDelivery)

\* getTopProducts(0, 1, 5)
RouterTop == 5

\* the lines appended to data by each group
RouterTodaySection(metrics) ==
  [title |-> "TODAY'S PERFORMANCE", revenue |-> metrics.totalRevenue,
   transactions |-> metrics.totalTransactions, avgSale |-> metrics.avgSale,
   profit |-> metrics.profit, profitMargin |-> metrics.profitMargin,
   peakHour |-> metrics.peakHour]
RouterCompareSection(comparison) ==
  [title |-> "VS YESTERDAY", revenue |-> comparison.changes.revenue,
   transactions |-> comparison.changes.transactions]
RouterTopSection(topProducts) ==
  [title |-> "TOP PRODUCTS TODAY",
   products |-> [i \in 1..Len(topProducts) |->
                   [description |-> topProducts[i].description,
                    revenue |-> topProducts[i].revenue,
                    quantity |-> topProducts[i].quantity]]]
RouterWeekSection(metrics) ==
  [title |-> "THIS WEEK", revenue |-> metrics.totalRevenue,
   transactions |-> metrics.totalTransactions, profit |-> metrics.profit]
RouterChannelSection(metrics) ==
  [title |-> "CHANNEL BREAKDOWN", orders |-> metrics.channels]

\* data || 'I can fetch that data for you! ...'
Fallback == [says |-> "I can fetch that data for you! Please specify what you'd like to know."]
RouterText(data) == IF data # <<>> THEN [says |-> "data", data |-> data] ELSE Fallback

\* the call is between two of its awaits: the section of an answered fetch is
\* appended and the next if statement is reached
RouterContinue(section, next) ==
  /\ pending' = [pending EXCEPT !.data = Append(@, section), !.at = next]
  /\ UNCHANGED <<lightspeedIntelligence, db, now, hostZone, isDST, pc, result>>

\* the if statement is not taken
RouterSkip(next) ==
  /\ pending' = [pending EXCEPT !.at = next]
  /\ UNCHANGED <<lightspeedIntelligence, db, now, hostZone, isDST, pc, result>>

\* the call settles: it returns value, or the error thrown by query() leaves it
RouterSettle(outcome, data) ==
  /\ result' = [op |-> "getIntelligentResponse", userQuestion |-> pending.userQuestion,
                question |-> pending.question, data |-> data, outcome |-> outcome]
  /\ pc' = "idle"
  /\ pending' = NoPending
  /\ UNCHANGED <<lightspeedIntelligence, db, now, hostZone, isDST>>

\* getIntelligentResponse up to its first if statement
GetIntelligentResponse(userQuestion) ==
  /\ pc = "idle" /\ result = NoResult
  /\ pc' = "router"
  /\ pending' = [op |-> "getIntelligentResponse", userQuestion |-> userQuestion,
                 question |-> toLowerCase(userQuestion), data |-> <<>>, at |-> "today"]
  /\ UNCHANGED <<lightspeedIntelligence, db, now, hostZone, isDST, result>>

\* if (question.includes('today')): await getSalesMetrics(0, 1)
RouterToday ==
  /\ pc = "router" /\ pending.at = "today"
  /\ IF AsksToday(pending.question)
     THEN \E ok \in BOOLEAN :
            IF ok THEN RouterContinue(RouterTodaySection(FetchMetrics(0, 1).metrics), "compare")
            ELSE RouterSettle(Rejected(PosError), pending.data)
     ELSE RouterSkip("top")

\* the nested if: await getComparison('daily'); its two windows are read from
\* the store as it is at this step
RouterCompare ==
  /\ pc = "router" /\ pending.at = "compare"
  /\ IF AsksCompare(pending.question)
     THEN \E ok \in BOOLEAN :
            IF ok
            THEN RouterContinue(RouterCompareSection(ComparisonOf(
                                  FetchMetrics(CurrentWindow("daily")[1],
                                               CurrentWindow("daily")[2]).metrics,
                                  FetchMetrics(PreviousWindow("daily")[1],
                                               PreviousWindow("daily")[2]).metrics)), "top")
            ELSE RouterSettle(Rejected(PosError), pending.data)
     ELSE RouterSkip("top")

\* if (top, best or selling): await getTopProducts(0, 1, 5)
RouterTopProducts ==
  /\ pc = "router" /\ pending.at = "top"
  /\ IF AsksTop(pending.question)
     THEN \E ok \in BOOLEAN :
            IF ok
            THEN RouterContinue(RouterTopSection(
                                  TopProductsOf(getSales(db, now, isDST, 0, 1).sales, RouterTop)),
                                "week")
            ELSE RouterSettle(Rejected(PosError), pending.data)
     ELSE RouterSkip("week")

\* if (question.includes('week')): await getSalesMetrics(0, 7)
RouterWeek ==
  /\ pc = "router" /\ pending.at = "week"
  /\ IF AsksWeek(pending.question)
     THEN \E ok \in BOOLEAN :
            IF ok THEN RouterContinue(RouterWeekSection(FetchMetrics(0, 7).metrics), "channel")
            ELSE RouterSettle(Rejected(PosError), pending.data)
     ELSE RouterSkip("channel")

\* if (channel or delivery): await getSalesMetrics(0, 1); then the return
RouterChannel ==
  /\ pc = "router" /\ pending.at = "channel"
  /\ IF AsksChannel(pending.question)
     THEN \E ok \in BOOLEAN :
            IF ok
            THEN LET data == Append(pending.data,
                                    RouterChannelSection(FetchMetrics(0, 1).metrics))
                 IN RouterSettle(Fulfilled(RouterText(data)), data)
            ELSE RouterSettle(Rejected(PosError), pending.data)
     ELSE RouterSettle(Fulfilled(RouterText(pending.data)), pending.data)

RouterNext ==
  \/ \E s \in SaleCatalog : PosAddSale(s)
  \/ \E userQuestion \in UserQuestions : GetIntelligentResponse(userQuestion)
  \/ RouterToday
  \/ RouterCompare
  \/ RouterTopProducts
  \/ RouterWeek
  \/ RouterChannel
  \/ Return

RouterSpec == Init /\ [][RouterNext]_vars

(***************************************************************************)
(* Two requests on the one instance                                         *)
(***************************************************************************)
\* The handlers of the bot run on one thread and share the one instance of
\* the class: a second event is served while the first waits for the POS, and
\* processWithClaude itself starts its three queries together.  Here pc and
\* pending hold, for each request, its position and what it holds across its
\* awaits; a returned value stays in the record of the request that got it.
Requests == 1..2

\* the sales the shop records while the requests run: one of the evening
\* before and two of the day
ConcCatalog == {s \in SaleCatalog : s.saleID \in {2, 3, 5}}

ConcInit ==
  /\ lightspeedIntelligence = "instance"
  /\ db = <<>>
  /\ now = StartInstant
  /\ hostZone \in HostZones
  /\ isDST \in BOOLEAN
  /\ pc = [r \in Requests |-> "idle"]
  /\ pending = [r \in Requests |-> NoPending]
  /\ result = NoResult

\* the request waits for the POS or for its continuation to be run
InFlight(r) == pc[r] \in {"query", "resume"}

\* the synchronous start of a query, up to "await this.query(...)": the window
\* is computed and the request is sent
SendQuery(r, call, daysAgo, daysSpan) ==
  /\ pc' = [pc EXCEPT ![r] = "query"]
  /\ pending' = [pending EXCEPT ![r] =
                   call @@ [dateRange |-> getDateRange(now, isDST, daysAgo, daysSpan)]]
  /\ UNCHANGED <<lightspeedIntelligence, db, now, hostZone, isDST, result>>

NewCall(r, op) ==
  [op |-> op, responses |-> <<>>,
   overlapped |-> \E q \in Requests \ {r} : InFlight(q)]

CallGetSalesMetrics(r, daysAgo, daysSpan) ==
  /\ pc[r] = "idle"
  /\ SendQuery(r, NewCall(r, "getSalesMetrics"), daysAgo, daysSpan)

CallGetTopProducts(r, daysAgo, daysSpan, limit) ==
  /\ pc[r] = "idle"
  /\ SendQuery(r, NewCall(r, "getTopProducts") @@ [limit |-> limit], daysAgo, daysSpan)

CallGetComparison(r, period) ==
  /\ pc[r] = "idle"
  /\ SendQuery(r, NewCall(r, "getComparison") @@ [period |-> period],
               CurrentWindow(period)[1], CurrentWindow(period)[2])

\* the POS answers the request with the sales it holds at that moment; the
\* continuation of the request is run later
QueryResponds(r) ==
  /\ pc[r] = "query"
  /\ pc' = [pc EXCEPT ![r] = "resume"]
  /\ pending' = [pending EXCEPT ![r].responses =
                   Append(@, [data |-> PosResponse(db, pending[r].dateRange),
                              dateRange |-> pending[r].dateRange])]
  /\ UNCHANGED <<lightspeedIntelligence, db, now, hostZone, isDST, result>>

\* a field of the instance that every request reads: the answer of the first
\* request that holds one
AwaitedSales_sharedField(calls, r) ==
  LET holders == {q \in DOMAIN calls : "responses" \in DOMAIN calls[q] /\ calls[q].responses # <<>>}
      q == CHOOSE h \in holders : \A o \in holders : h <= o
      response == calls[q].responses[Len(calls[q].responses)]
  IN [sales |-> AsArray(response.data, "Sale"), dateRange |-> response.dateRange]

\* const { sales, dateRange } = await this.getSales(daysAgo, daysSpan): the
\* value of the call's own promise
AwaitedSales(calls, r) ==
  LET response == calls[r].responses[Len(calls[r].responses)]
  IN [sales |-> AsArray(response.data, "Sale"), dateRange |-> response.dateRange]

\* the accumulators are locals of the call: every aggregation starts from
\* zero and runs to its end without an await
AwaitedMetrics(calls, r) ==
  LET got == AwaitedSales(calls, r)
  IN SalesMetricsOf(got.sales, got.dateRange, hostZone, isDST)

Returns(r, value) ==
  /\ pc' = [pc EXCEPT ![r] = "done"]
  /\ pending' = [pending EXCEPT ![r] = @ @@ [returned |-> value]]
  /\ UNCHANGED <<lightspeedIntelligence, db, now, hostZone, isDST, result>>

ResumeGetSalesMetrics(r) ==
  /\ pc[r] = "resume"
  /\ pending[r].op = "getSalesMetrics"
  /\ Returns(r, AwaitedMetrics(pending, r))

ResumeGetTopProducts(r) ==
  /\ pc[r] = "resume"
  /\ pending[r].op = "getTopProducts"
  /\ Returns(r, TopProductsOf(AwaitedSales(pending, r).sales, pending[r].limit))

\* current = await this.getSalesMetrics(...), then the call for previous
ResumeComparisonCurrent(r) ==
  /\ pc[r] = "resume"
  /\ pending[r].op = "getComparison"
  /\ Len(pending[r].responses) = 1
  /\ LET w == PreviousWindow(pending[r].period)
     IN SendQuery(r, [current |-> AwaitedMetrics(pending, r)] @@
                     [f \in DOMAIN pending[r] \ {"dateRange"} |-> pending[r][f]],
                  w[1], w[2])

\* previous = await this.getSalesMetrics(...), then the changes
ResumeComparisonPrevious(r) ==
  /\ pc[r] = "resume"
  /\ pending[r].op = "getComparison"
  /\ Len(pending[r].responses) = 2
  /\ LET previous == AwaitedMetrics(pending, r)
     IN Returns(r, [current |-> pending[r].current, previous |-> previous,
                    comparison |-> ComparisonOf(pending[r].current, previous)])

ConcNext ==
  \/ \E s \in ConcCatalog : PosAddSale(s)
  \/ \E r \in Requests, w \in CalledWindows : CallGetSalesMetrics(r, w[1], w[2])
  \/ \E r \in Requests, limit \in 1..MaxLimit : CallGetTopProducts(r, 0, 1, limit)
  \/ \E r \in Requests : CallGetComparison(r, "daily")
  \/ \E r \in Requests : QueryResponds(r)
  \/ \E r \in Requests : ResumeGetSalesMetrics(r)
  \/ \E r \in Requests : ResumeGetTopProducts(r)
  \/ \E r \in Requests : ResumeComparisonCurrent(r)
  \/ \E r \in Requests : ResumeComparisonPrevious(r)

ConcSpec == ConcInit /\ [][ConcNext]_vars

(***************************************************************************)
(* Properties                                                               *)
(***************************************************************************)
Remove(seq, i) == SubSeq(seq, 1, i - 1) \o SubSeq(seq, i + 1, Len(seq))

RECURSIVE SumSeq(_)
SumSeq(seq) == IF seq = <<>> THEN 0 ELSE Head(seq) + SumSeq(Tail(seq))

RECURSIVE Flatten(_)
Flatten(seqs) == IF seqs = <<>> THEN <<>> ELSE Head(seqs) \o Flatten(Tail(seqs))

\* the fetches (sales, window, metrics) whose outcome the last call returned
MetricsResults ==
  IF result.op = "getSalesMetrics" THEN {result}
  ELSE IF result.op = "getComparison" THEN {result.current, result.previous}
  ELSE {}

\* every window computed for the call that returned or is in flight
ComputedRanges ==
  {r.dateRange : r \in MetricsResults}
  \cup (IF result.op = "getTopProducts" THEN {result.dateRange} ELSE {})
  \cup (IF pc = "previous" THEN {pending.current.dateRange} ELSE {})

Recompute(sales, r) == SalesMetricsOf(sales, r.dateRange, hostZone, isDST)

FlagSet(sale) == sale.voided = "true"
VoidedCatalog == {[s EXCEPT !.voided = "true"] : s \in SaleCatalog}
NonPositive(sale) == ~FlagSet(sale) /\ Field(sale, "calcTotal", 0) <= 0
Counted(sale) == ~FlagSet(sale) /\ Field(sale, "calcTotal", 0) > 0

\* C1: adding or removing a transaction whose voided flag is set changes no
\* field of the getSalesMetrics result and no entry of the getTopProducts
\* ranking
C1_VoidedExcluded ==
  /\ \A r \in MetricsResults :
       /\ \A i \in 1..Len(r.sales) :
            FlagSet(r.sales[i]) => Recompute(Remove(r.sales, i), r) = r.metrics
       /\ \A v \in VoidedCatalog :
            /\ Recompute(Append(r.sales, v), r) = r.metrics
            /\ Recompute(<<v>> \o r.sales, r) = r.metrics
  /\ result.op = "getTopProducts" =>
       /\ \A i \in 1..Len(result.sales) :
            FlagSet(result.sales[i]) =>
              TopProductsOf(Remove(result.sales, i), result.limit) = result.top
       /\ \A v \in VoidedCatalog :
            /\ TopProductsOf(Append(result.sales, v), result.limit) = result.top
            /\ TopProductsOf(<<v>> \o result.sales, result.limit) = result.top

\* a ranking computed from a voided sale and a sale that counts
C1_Witness ==
  /\ result.op = "getTopProducts"
  /\ \E i \in 1..Len(result.sales) : FlagSet(result.sales[i]) /\ LinesOf(result.sales[i]) # <<>>
  /\ Len(result.top) > 0

SameBusinessDay(a, b) ==
  ToBusinessWall(a.at, isDST) \div DAY = ToBusinessWall(b.at, isDST) \div DAY

\* C2: in getComparison the previous window immediately precedes the current
\* window and the two do not overlap, so that no transaction is counted in both
C2_WindowsDisjoint ==
  (result.op = "getComparison"
     /\ SameBusinessDay(result.current.dateRange, result.previous.dateRange)) =>
    /\ result.previous.dateRange.end < result.current.dateRange.start
    /\ result.previous.dateRange.end + 1 = result.current.dateRange.start
    /\ \A i \in 1..Len(result.current.sales), j \in 1..Len(result.previous.sales) :
         result.current.sales[i].saleID # result.previous.sales[j].saleID

\* midnight, in the business zone, of the day daysAgo days before the day of the call
BusinessMidnight(r) ==
  (((ToBusinessWall(r.at, isDST) \div DAY) - r.daysAgo) * DAY) - BizOffset(isDST)

\* C3: the window of getDateRange(daysAgo, daysSpan) covers exactly daysSpan
\* days starting at midnight of (today - daysAgo)
C3_WindowLength ==
  \A r \in ComputedRanges :
    /\ r.start = BusinessMidnight(r)
    /\ r.end + 1 = r.start + r.daysSpan * DAY

\* C4: a non-voided transaction whose total is <= 0 does not increment
\* totalTransactions, any channel count or any hourly bucket
C4_NonPositiveNotCounted ==
  \A r \in MetricsResults : \A i \in 1..Len(r.sales) :
    NonPositive(r.sales[i]) =>
      LET without == Recompute(Remove(r.sales, i), r)
      IN /\ without.totalTransactions = r.metrics.totalTransactions
         /\ without.channels = r.metrics.channels
         /\ without.hourly = r.metrics.hourly

\* metrics over a sale of total <= 0 next to a sale that counts
C4_Witness ==
  /\ result.op = "getSalesMetrics"
  /\ \E i \in 1..Len(result.sales) : NonPositive(result.sales[i])
  /\ result.metrics.totalTransactions = 1

\* the line items of the sales selected, in order
LinesOfAll(sales) == Flatten([i \in 1..Len(sales) |-> LinesOf(sales[i])])
LinesOfCounted(sales) == LinesOfAll(SelectSeq(sales, Counted))
LinesOfNotVoided(sales) == LinesOfAll(SelectSeq(sales, LAMBDA x : ~FlagSet(x)))

Subtotal(line) == Field(line, "calcSubtotal", 0)
Quantity(line) == Field(line, "unitQuantity", 0)
\* the FIFO cost when the line has one, else the average cost
UnitCost(line) ==
  IF "fifoCost" \in DOMAIN line THEN line.fifoCost
  ELSE IF "avgCost" \in DOMAIN line THEN line.avgCost ELSE 0
CostOfLine(line) == UnitCost(line) * Quantity(line)

SumSubtotals(lines) == SumSeq([i \in 1..Len(lines) |-> Subtotal(lines[i])])
SumCosts(lines) == SumSeq([i \in 1..Len(lines) |-> CostOfLine(lines[i])])
SumQuantities(lines) == SumSeq([i \in 1..Len(lines) |-> Quantity(lines[i])])

\* the sales of the catalog with these ids, as the shop recorded them
IsScenario(sales, ids) ==
  /\ {sales[i].saleID : i \in 1..Len(sales)} = ids
  /\ \A i \in 1..Len(sales) : sales[i] \in SaleCatalog

\* C5: totalRevenue, totalCost and totalItems are accumulated over the line
\* items of exactly the transactions counted in totalTransactions (non-voided,
\* total > 0); one voided sale of total 50 plus one valid sale with line
\* subtotal 30 and cost 10 gives count 1, revenue 30, cost 10, profit 20
C5_TotalsOverCounted ==
  \A r \in MetricsResults :
    LET lines == LinesOfCounted(r.sales)
    IN /\ r.metrics.totalTransactions = Cardinality({i \in 1..Len(r.sales) : Counted(r.sales[i])})
       /\ r.metrics.totalRevenue = SumSubtotals(lines)
       /\ r.metrics.totalCost = SumCosts(lines)
       /\ r.metrics.totalItems = SumQuantities(lines)
       /\ r.metrics.profit = r.metrics.totalRevenue - r.metrics.totalCost
       /\ IsScenario(r.sales, {4, 5}) =>
            /\ r.metrics.totalTransactions = 1
            /\ r.metrics.totalRevenue = 30
            /\ r.metrics.totalCost = 10
            /\ r.metrics.profit = 20
            /\ FracEq(r.metrics.profitMargin, Frac(200, 3))

\* the metrics of the voided sale of 50 and the valid sale of 30
C5_Witness ==
  /\ result.op = "getSalesMetrics"
  /\ IsScenario(result.sales, {4, 5})
  /\ result.metrics.totalRevenue = 30

\* C6, as stated: a non-voided transaction with non-positive total is left out
\* of the transaction count, but its line items are still included in
\* totalRevenue, totalCost and totalItems
C6_LinesOfNonPositiveIncluded ==
  \A r \in MetricsResults :
    LET lines == LinesOfNotVoided(r.sales)
    IN /\ r.metrics.totalTransactions = Cardinality({i \in 1..Len(r.sales) : Counted(r.sales[i])})
       /\ r.metrics.totalRevenue = SumSubtotals(lines)
       /\ r.metrics.totalCost = SumCosts(lines)
       /\ r.metrics.totalItems = SumQuantities(lines)

\* C6, amended: a non-voided transaction with non-positive total is left out
\* of the transaction count, the channel and the hourly statistics, and its
\* line items are left out of totalRevenue, totalCost and totalItems too
C6_LinesOfNonPositiveExcluded ==
  \A r \in MetricsResults : \A i \in 1..Len(r.sales) :
    NonPositive(r.sales[i]) =>
      LET without == Recompute(Remove(r.sales, i), r)
      IN /\ without.totalRevenue = r.metrics.totalRevenue
         /\ without.totalCost = r.metrics.totalCost
         /\ without.totalItems = r.metrics.totalItems
         /\ without.profit = r.metrics.profit

\* metrics over a sale of total <= 0 whose line has a subtotal, a cost and a quantity
C6_Witness ==
  /\ result.op = "getSalesMetrics"
  /\ \E i \in 1..Len(result.sales) :
       /\ NonPositive(result.sales[i])
       /\ \E k \in 1..Len(LinesOf(result.sales[i])) :
            LET line == LinesOf(result.sales[i])[k]
            IN Subtotal(line) # 0 /\ CostOfLine(line) # 0 /\ Quantity(line) # 0

\* C7: the hourly bucket incremented for a counted transaction is the hour of
\* its completion time in the business timezone, whatever the host's timezone
C7_HourInBusinessZone ==
  \A r \in MetricsResults :
    r.metrics.hourly =
      [h \in Hours |-> Cardinality({i \in 1..Len(r.sales) :
                          Counted(r.sales[i]) /\ BusinessHour(r.sales[i].completeTime, isDST) = h})]

IsZero(f) == f.num = 0 /\ f.den # 0

\* C8, as stated: profitMargin is exactly 0 whenever totalRevenue is 0, and
\* otherwise is profit / totalRevenue as a percentage
C8_MarginZeroOnlyAtZero ==
  \A r \in MetricsResults :
    /\ r.metrics.totalRevenue = 0 => IsZero(r.metrics.profitMargin)
    /\ r.metrics.totalRevenue # 0 =>
         /\ r.metrics.profitMargin.den # 0
         /\ FracEq(r.metrics.profitMargin, Frac(r.metrics.profit * 100, r.metrics.totalRevenue))

\* C8, amended: profitMargin is exactly 0 whenever totalRevenue is 0 or
\* negative, and is profit / totalRevenue as a percentage when totalRevenue > 0
C8_MarginZeroUnlessPositive ==
  \A r \in MetricsResults :
    /\ r.metrics.totalRevenue <= 0 => IsZero(r.metrics.profitMargin)
    /\ r.metrics.totalRevenue > 0 =>
         /\ r.metrics.profitMargin.den # 0
         /\ FracEq(r.metrics.profitMargin, Frac(r.metrics.profit * 100, r.metrics.totalRevenue))

\* counted transactions whose revenue is 0 while the profit is not
C8_Witness ==
  /\ result.op = "getSalesMetrics"
  /\ result.metrics.totalTransactions > 0
  /\ result.metrics.totalRevenue = 0
  /\ result.metrics.profit # 0

TieAtZeroAndOne == [h \in Hours |-> IF h \in {0, 1} THEN 5 ELSE 0]

\* C9: peakHour is the lowest hour whose count equals the maximum of the
\* hourly distribution; the counts [5,5,0,...] give peak hour 0
C9_PeakIsEarliestMax ==
  /\ \A r \in MetricsResults :
       LET hourly == r.metrics.hourly
           peak == r.metrics.peakHour
       IN /\ peak \in Hours
          /\ \A h \in Hours : hourly[h] <= hourly[peak]
          /\ \A h \in Hours : h < peak => hourly[h] < hourly[peak]
  /\ PeakHour(TieAtZeroAndOne) = 0

\* two hours share the maximum
C9_Witness ==
  /\ result.op = "getSalesMetrics"
  /\ \E g, h \in Hours :
       /\ g < h
       /\ result.metrics.hourly[g] = result.metrics.hourly[h]
       /\ result.metrics.hourly[g] > 0
       /\ \A k \in Hours : result.metrics.hourly[k] <= result.metrics.hourly[g]
       /\ result.metrics.peakHour = g

\* C10: when the previous period's revenue (resp. transaction count) is 0, the
\* revenue (resp. transaction) percentage change is exactly 0, whatever the
\* current value is
C10_ZeroBaseline ==
  result.op = "getComparison" =>
    /\ result.previous.metrics.totalRevenue = 0 => IsZero(result.comparison.changes.revenue)
    /\ result.previous.metrics.totalTransactions = 0 =>
         IsZero(result.comparison.changes.transactions)

\* a comparison whose previous period is empty and whose current period is not
C10_Witness ==
  /\ result.op = "getComparison"
  /\ result.previous.metrics.totalRevenue = 0
  /\ result.previous.metrics.totalTransactions = 0
  /\ result.current.metrics.totalRevenue > 0
  /\ result.current.metrics.totalTransactions > 0

\* (current - previous) / previous * 100
PercentOf(current, previous) == Frac((current - previous) * 100, previous)

\* revenue per transaction, 0 without transactions
AverageSale(m) ==
  IF m.totalTransactions > 0 THEN Frac(m.totalRevenue, m.totalTransactions) ELSE FracZero

\* the avgSale change is the difference current.avgSale - previous.avgSale
AvgSaleIsDifference ==
  LET c == AverageSale(result.current.metrics)
      p == AverageSale(result.previous.metrics)
      d == result.comparison.changes.avgSale
  IN d.den # 0 /\ d.num * (c.den * p.den) = (c.num * p.den - p.num * c.den) * d.den

\* C11, as stated: for every previous value different from 0, a negative
\* previous revenue included, the percentage change is
\* (current - previous) / previous * 100, and it is forced to 0 only when
\* previous is 0; the avgSale change is the difference of the two avgSale
C11_PercentForAnyNonZero ==
  result.op = "getComparison" =>
    LET c == result.current.metrics
        p == result.previous.metrics
        ch == result.comparison.changes
    IN /\ p.totalRevenue # 0 =>
            ch.revenue.den # 0 /\ FracEq(ch.revenue, PercentOf(c.totalRevenue, p.totalRevenue))
       /\ p.totalRevenue = 0 => IsZero(ch.revenue)
       /\ p.totalTransactions # 0 =>
            ch.transactions.den # 0
            /\ FracEq(ch.transactions, PercentOf(c.totalTransactions, p.totalTransactions))
       /\ p.totalTransactions = 0 => IsZero(ch.transactions)
       /\ AvgSaleIsDifference

\* C11, amended: for every previous value greater than 0 the percentage change
\* is (current - previous) / previous * 100, and it is 0 when previous is 0 or
\* negative; the avgSale change is the difference of the two avgSale
C11_PercentForPositive ==
  result.op = "getComparison" =>
    LET c == result.current.metrics
        p == result.previous.metrics
        ch == result.comparison.changes
    IN /\ p.totalRevenue > 0 =>
            ch.revenue.den # 0 /\ FracEq(ch.revenue, PercentOf(c.totalRevenue, p.totalRevenue))
       /\ p.totalRevenue <= 0 => IsZero(ch.revenue)
       /\ p.totalTransactions > 0 =>
            ch.transactions.den # 0
            /\ FracEq(ch.transactions, PercentOf(c.totalTransactions, p.totalTransactions))
       /\ p.totalTransactions <= 0 => IsZero(ch.transactions)
       /\ AvgSaleIsDifference

\* a comparison over a positive previous revenue that differs from the current
\* one, in revenue, in transactions and in average sale
C11_Witness ==
  /\ result.op = "getComparison"
  /\ result.previous.metrics.totalRevenue > 0
  /\ result.current.metrics.totalRevenue > 0
  /\ result.current.metrics.totalRevenue # result.previous.metrics.totalRevenue
  /\ result.current.metrics.totalTransactions # result.previous.metrics.totalTransactions
  /\ result.comparison.changes.avgSale.num # 0

\* sub occurs in s
Occurs(sub, s) ==
  \E i \in 1..(Len(s) - Len(sub) + 1) : SubSeq(s, i, i + Len(sub) - 1) = sub

\* the case-folded first and last name, a missing one empty, joined by a space
FoldedFullName(customer) ==
  toLowerCase(Field(customer, "firstName", <<>>)) \o <<" ">>
  \o toLowerCase(Field(customer, "lastName", <<>>))

\* the known names of the delivery platforms
KnownNames ==
  [UberEats |-> {sUberEats, sUberEatsSp}, DoorDash |-> {sDoorDash},
   GrubHub |-> {sGrubHub}, CityHive |-> {sCityHive}]

\* the platforms one of whose known names occurs in the name
PlatformsNamed(name) == {pf \in DOMAIN KnownNames : \E k \in KnownNames[pf] : Occurs(k, name)}

\* C12: classifyChannel returns "In-Store" for a transaction with no customer;
\* with a customer it returns the delivery platform whose known name occurs in
\* the case-folded first and last name ("DoorDash Orders" gives DoorDash), and
\* "In-Store" when no platform name matches
C12_ChannelByName ==
  result.op = "classifyChannel" =>
    IF "Customer" \notin DOMAIN result.sale THEN result.channel = "In-Store"
    ELSE LET named == PlatformsNamed(FoldedFullName(result.sale.Customer))
         IN /\ named = {} => result.channel = "In-Store"
            /\ named # {} => result.channel \in named
            /\ result.sale.Customer = [firstName |-> nDoorDash, lastName |-> nOrders] =>
                 result.channel = "DoorDash"

\* the customer "DoorDash Orders" classified
C12_Witness ==
  /\ result.op = "classifyChannel"
  /\ "Customer" \in DOMAIN result.sale
  /\ result.sale.Customer = [firstName |-> nDoorDash, lastName |-> nOrders]
  /\ result.channel = "DoorDash"

\* the items of the lines of the sales that are not voided
ItemIds(sales) ==
  LET lines == LinesOfNotVoided(sales) IN {lines[i].itemID : i \in 1..Len(lines)}
LinesOfItem(sales, id) == SelectSeq(LinesOfNotVoided(sales), LAMBDA l : l.itemID = id)
RevenueOfItem(sales, id) == SumSubtotals(LinesOfItem(sales, id))
QuantityOfItem(sales, id) == SumQuantities(LinesOfItem(sales, id))
Min(a, b) == IF a < b THEN a ELSE b
TopIds(top) == [i \in 1..Len(top) |-> top[i].itemId]

\* items A (50), B (120) and C (80)
IsExampleABC(sales) ==
  /\ ItemIds(sales) = {NameId(1), NameId(2), NameId(3)}
  /\ RevenueOfItem(sales, NameId(1)) = 50
  /\ RevenueOfItem(sales, NameId(2)) = 120
  /\ RevenueOfItem(sales, NameId(3)) = 80

\* C13: getTopProducts(..., limit = N) returns at most N entries, they are the
\* N items of highest accumulated revenue in the window, ordered by revenue
\* descending; A=50, B=120, C=80 with N=2 give [B, C]
C13_TopNByRevenue ==
  result.op = "getTopProducts" =>
    LET top == result.top
        ids == ItemIds(result.sales)
        topIds == {top[i].itemId : i \in 1..Len(top)}
    IN /\ Len(top) <= result.limit
       /\ Len(top) = Min(result.limit, Cardinality(ids))
       /\ \A i \in 1..Len(top) :
            /\ top[i].itemId \in ids
            /\ top[i].revenue = RevenueOfItem(result.sales, top[i].itemId)
       /\ \A i, j \in 1..Len(top) :
            i < j => top[i].itemId # top[j].itemId /\ top[i].revenue >= top[j].revenue
       /\ \A id \in ids \ topIds : \A i \in 1..Len(top) :
            RevenueOfItem(result.sales, id) <= top[i].revenue
       /\ (IsExampleABC(result.sales) /\ result.limit = 2) =>
            TopIds(top) = <<NameId(2), NameId(3)>>

\* the ranking of A, B and C cut to two entries
C13_Witness ==
  /\ result.op = "getTopProducts"
  /\ IsExampleABC(result.sales)
  /\ result.limit = 2
  /\ TopIds(result.top) = <<NameId(2), NameId(3)>>

\* the position, among the lines of the sales that are not voided, of the
\* first line of the item
FirstEncounter(sales, id) ==
  LET lines == LinesOfNotVoided(sales)
  IN CHOOSE i \in 1..Len(lines) :
       lines[i].itemID = id /\ \A j \in 1..(i - 1) : lines[j].itemID # id

Tied(top, i, j) == i < j /\ top[i].revenue = top[j].revenue

\* C14: entries with equal accumulated revenue keep the order in which their
\* items were first encountered in the transaction sequence, for every kind of
\* item identifier
C14_TiesKeepFirstEncounter ==
  result.op = "getTopProducts" =>
    \A i, j \in 1..Len(result.top) :
      Tied(result.top, i, j) =>
        FirstEncounter(result.sales, result.top[i].itemId)
          < FirstEncounter(result.sales, result.top[j].itemId)

\* the order of the keys of an object: array indices ascending, then the other
\* keys in the order of first encounter
KeyBefore(sales, a, b) ==
  IF a.index /\ b.index THEN a.n < b.n
  ELSE IF a.index # b.index THEN a.index
  ELSE FirstEncounter(sales, a) < FirstEncounter(sales, b)

\* C14 (amended): entries with equal accumulated revenue keep the order of
\* first encounter when neither item id is an array index; an item whose id is
\* an array index comes before one whose id is not, and two such items come
\* in ascending order of id
C14_TiesKeepKeyOrder ==
  result.op = "getTopProducts" =>
    \A i, j \in 1..Len(result.top) :
      Tied(result.top, i, j) =>
        KeyBefore(result.sales, result.top[i].itemId, result.top[j].itemId)

\* a tie of two items whose ids are array indices, ranked against the order
\* of their first encounter
C14_Witness ==
  /\ result.op = "getTopProducts"
  /\ \E i, j \in 1..Len(result.top) :
       /\ Tied(result.top, i, j)
       /\ result.top[i].itemId.index /\ result.top[j].itemId.index
       /\ FirstEncounter(result.sales, result.top[j].itemId)
            < FirstEncounter(result.sales, result.top[i].itemId)

\* C15: in getTopProducts each item's accumulated quantity and revenue equal
\* the sums over the line items of every non-voided transaction in the window,
\* including transactions whose total is non-positive
C15_SumsOverNonVoided ==
  result.op = "getTopProducts" =>
    \A i \in 1..Len(result.top) :
      /\ result.top[i].quantity = QuantityOfItem(result.sales, result.top[i].itemId)
      /\ result.top[i].revenue = RevenueOfItem(result.sales, result.top[i].itemId)

\* a ranking over a voided sale and a sale of total <= 0 whose item is ranked
\* with the revenue of its line
C15_Witness ==
  /\ result.op = "getTopProducts"
  /\ \E i \in 1..Len(result.sales) : FlagSet(result.sales[i]) /\ LinesOf(result.sales[i]) # <<>>
  /\ \E i \in 1..Len(result.sales), k \in 1..Len(result.top) :
       /\ NonPositive(result.sales[i])
       /\ \E n \in 1..Len(LinesOf(result.sales[i])) :
            /\ LinesOf(result.sales[i])[n].itemID = result.top[k].itemId
            /\ Subtotal(LinesOf(result.sales[i])[n]) > 0
            /\ result.top[k].revenue >= Subtotal(LinesOf(result.sales[i])[n])

\* no line of the item carries a description
Undescribed(sales, id) ==
  LET lines == LinesOfItem(sales, id)
  IN \A i \in 1..Len(lines) :
       "Item" \notin DOMAIN lines[i] \/ "description" \notin DOMAIN lines[i].Item

\* C16: an item whose line items carry no description still gets a ranking
\* entry, labeled "Unknown"; no item that appears in a non-voided line is
\* omitted from the accumulation before the top-N cut
C16_UnknownNotOmitted ==
  result.op = "getTopProducts" =>
    LET top == result.top
        ids == ItemIds(result.sales)
    IN /\ Len(top) = Min(result.limit, Cardinality(ids))
       /\ Cardinality(ids) <= result.limit => {top[i].itemId : i \in 1..Len(top)} = ids
       /\ \A i \in 1..Len(top) :
            Undescribed(result.sales, top[i].itemId) => top[i].description = "Unknown"

\* a ranking that is not cut, with an entry labeled "Unknown" for an item
\* without description next to a described item
C16_Witness ==
  /\ result.op = "getTopProducts"
  /\ Cardinality(ItemIds(result.sales)) <= result.limit
  /\ \E i, j \in 1..Len(result.top) :
       /\ Undescribed(result.sales, result.top[i].itemId)
       /\ result.top[i].description = "Unknown"
       /\ result.top[j].description # "Unknown"

\* the fetches of the last call that were answered by the store as it is now
FreshFetches ==
  IF result.op \in {"getSalesMetrics", "getTopProducts"} THEN {result}
  ELSE IF result.op = "getComparison" THEN {result.previous}
  ELSE {}

\* the line items as the POS sent them: none, one bare record, or a collection
RawLines(sale) ==
  IF "SaleLines" \notin DOMAIN sale THEN <<>>
  ELSE IF "SaleLine" \notin DOMAIN sale.SaleLines THEN <<>>
  ELSE IF sale.SaleLines.SaleLine.isArray THEN sale.SaleLines.SaleLine.v
  ELSE <<sale.SaleLines.SaleLine.v>>

RawLinesOfAll(sales) == Flatten([i \in 1..Len(sales) |-> RawLines(sales[i])])

IsBare(r, f) == f \in DOMAIN r /\ ~r[f].isArray

\* C17: getSales always returns a sequence of transactions: an unwrapped
\* single record becomes a one-element sequence, a collection is returned as
\* is, an absent Sale field becomes the empty sequence, and count equals the
\* sequence length; the same normalisation applies to a transaction's
\* single-vs-collection line items in getSalesMetrics and getTopProducts
C17_AlwaysSequence ==
  \A f \in FreshFetches :
    LET data == PosResponse(db, f.dateRange)
    IN /\ DOMAIN f.sales = 1..Len(f.sales)
       /\ "Sale" \notin DOMAIN data => f.sales = <<>>
       /\ IsBare(data, "Sale") => f.sales = <<data.Sale.v>>
       /\ ("Sale" \in DOMAIN data /\ data.Sale.isArray) => f.sales = data.Sale.v
       /\ "count" \in DOMAIN f => f.count = Len(f.sales)
       /\ "metrics" \in DOMAIN f =>
            f.metrics.totalItems = SumQuantities(RawLinesOfAll(SelectSeq(f.sales, Counted)))
       /\ "top" \in DOMAIN f =>
            LET lines == RawLinesOfAll(SelectSeq(f.sales, LAMBDA x : ~FlagSet(x)))
            IN /\ \A i \in 1..Len(f.top) : \E n \in 1..Len(lines) : lines[n].itemID = f.top[i].itemId
               /\ (lines # <<>>) => Len(f.top) >= 1

\* metrics over a response that is one unwrapped sale with one unwrapped line
C17_Witness ==
  /\ result.op = "getSalesMetrics"
  /\ IsBare(PosResponse(db, result.dateRange), "Sale")
  /\ result.count = 1
  /\ Counted(result.sales[1])
  /\ IsBare(result.sales[1].SaleLines, "SaleLine")
  /\ result.metrics.totalItems = Quantity(result.sales[1].SaleLines.SaleLine.v)

\* the data sections of the prompt sent to the language model
ContentOf(request) == request.messages[Len(request.messages)].content

SectionsOf(request) ==
  IF ContentOf(request).kind = "live" THEN ContentOf(request).businessData ELSE <<>>

HasSection(request, title) ==
  \E n \in 1..Len(SectionsOf(request)) : SectionsOf(request)[n].title = title

SectionOf(request, title) ==
  SectionsOf(request)[CHOOSE n \in 1..Len(SectionsOf(request)) : SectionsOf(request)[n].title = title]

\* the call fetched data: the three branches were started
Fetched(r) == r.op = "processWithClaude" /\ r.todayMetrics.settled # "none"

\* the branch failed and its failure was replaced by null
Failed(p) == p.settled = "fulfilled" /\ "null" \in DOMAIN p

\* C18: in processWithClaude the three data fetches are isolated: for every
\* subset of them that fails the request does not fail, and the data of every
\* branch that succeeded still appears in the prompt sent to the language model
C18_BranchesIsolated ==
  Fetched(result) =>
    /\ ContentOf(result.request).kind \in {"live", "plain"}
    /\ ContentOf(result.request).userMessage = result.userMessage
    /\ (result.response.settled = "fulfilled" /\ Len(result.response.value.content) > 0) =>
         result.outcome = Fulfilled(result.response.value.content[1].text)
    /\ Truthy(result.todayMetrics) =>
         /\ HasSection(result.request, "TODAY'S PERFORMANCE")
         /\ LET sec == SectionOf(result.request, "TODAY'S PERFORMANCE")
                m == result.todayMetrics.value
            IN /\ sec.revenue = m.totalRevenue /\ sec.transactions = m.totalTransactions
               /\ sec.profit = m.profit /\ sec.items = m.totalItems
               /\ sec.peakHour = m.peakHour
    /\ Truthy(result.comparison) =>
         /\ HasSection(result.request, "COMPARED TO YESTERDAY")
         /\ LET sec == SectionOf(result.request, "COMPARED TO YESTERDAY")
                c == result.comparison.value.changes
            IN sec.revenue = c.revenue /\ sec.transactions = c.transactions
                 /\ sec.avgSale = c.avgSale
    /\ (Truthy(result.topProducts) /\ Len(result.topProducts.value) > 0) =>
         /\ HasSection(result.request, "TOP SELLING PRODUCTS TODAY")
         /\ LET sec == SectionOf(result.request, "TOP SELLING PRODUCTS TODAY")
                top == result.topProducts.value
            IN \A i \in 1..Min(Len(top), TopShown) :
                 /\ sec.products[i].description = top[i].description
                 /\ sec.products[i].revenue = top[i].revenue
                 /\ sec.products[i].quantity = top[i].quantity

\* the metrics fetch failed, the two others succeeded and their data is in
\* the prompt that was answered
C18_Witness ==
  /\ Fetched(result)
  /\ Failed(result.todayMetrics)
  /\ Truthy(result.topProducts) /\ Len(result.topProducts.value) > 0
  /\ Truthy(result.comparison)
  /\ ~HasSection(result.request, "TODAY'S PERFORMANCE")
  /\ HasSection(result.request, "TOP SELLING PRODUCTS TODAY")
  /\ HasSection(result.request, "COMPARED TO YESTERDAY")
  /\ result.outcome.value.says = "answer"

\* the text says that live sales data is unavailable
NotesUnavailable(text) == Field(text, "unavailableNote", FALSE)

\* C19: when no POS configuration is present a user question is still
\* answered by the language model (processWithClaude still issues the LLM
\* request), and the prompt or the answer carries a note that live sales data
\* is unavailable
C19_DegradedWithNote ==
  (result.op = "processWithClaude" /\ lightspeedIntelligence = "null") =>
    /\ ContentOf(result.request).userMessage = result.userMessage
    /\ result.response \in LlmOutcomes
    /\ \/ ContentOf(result.request).kind = "note"
       \/ NotesUnavailable(result.request.system)
       \/ NotesUnavailable(result.outcome.value)

IsText(v) == "says" \in DOMAIN v

\* C20: processWithClaude and getTodaysSalesSummary never reject: for every
\* failure of the POS API or of the language-model API they resolve to a text
\* string (an error explanation or a degraded answer)
C20_NeverRejects ==
  /\ result.op = "processWithClaude" =>
       /\ result.outcome.settled = "fulfilled"
       /\ IsText(result.outcome.value)
       /\ FirstText(result.response).settled = "rejected" =>
            /\ result.outcome.value.says = "Error processing your request"
            /\ result.outcome.value.message = FirstText(result.response).reason
  /\ result.op = "getTodaysSalesSummary" =>
       /\ result.outcome.settled = "fulfilled"
       /\ IsText(result.outcome.value)
       /\ (lightspeedIntelligence # "null" /\ ~result.ok) =>
            result.outcome.value.says
              = "Error fetching sales data. Please check Lightspeed connection."

\* the POS failed in every branch and then the language-model API failed: the
\* call resolved to the error text
C20_Witness ==
  /\ Fetched(result)
  /\ Failed(result.todayMetrics) /\ Failed(result.topProducts) /\ Failed(result.comparison)
  /\ result.response.settled = "rejected"
  /\ result.outcome.settled = "fulfilled"
  /\ result.outcome.value.says = "Error processing your request"

\* C21: when a POS call fails during getIntelligentResponse the failure is
\* caught at that boundary and converted into a short text result;
\* getIntelligentResponse does not propagate the upstream error to its caller
C21_RouterCatches ==
  result.op = "getIntelligentResponse" =>
    /\ result.outcome.settled = "fulfilled"
    /\ IsText(result.outcome.value)

\* a section of this title is in the data the router assembled
HasTitle(data, title) == \E n \in 1..Len(data) : data[n].title = title

\* one of the words occurs in the lower-cased question
Mentions(question, words) == \E w \in words : Occurs(w, question)

\* C22: every keyword group whose keyword occurs in the question (today;
\* compare/yesterday; top/best/selling; week; channel/delivery) appends its own
\* section to the output, several groups can fire for one question, and the
\* generic fallback text is returned exactly when no vocabulary keyword occurs
\* in the question
C22_EveryGroupFires ==
  (result.op = "getIntelligentResponse" /\ result.outcome.settled = "fulfilled") =>
    LET q == result.question
        data == IF "data" \in DOMAIN result.outcome.value
                THEN result.outcome.value.data ELSE <<>>
    IN /\ Mentions(q, {wToday}) <=> HasTitle(data, "TODAY'S PERFORMANCE")
       /\ Mentions(q, {wCompare, wYesterday}) <=> HasTitle(data, "VS YESTERDAY")
       /\ Mentions(q, {wTop, wBest, wSelling}) <=> HasTitle(data, "TOP PRODUCTS TODAY")
       /\ Mentions(q, {wWeek}) <=> HasTitle(data, "THIS WEEK")
       /\ Mentions(q, {wChannel, wDelivery}) <=> HasTitle(data, "CHANNEL BREAKDOWN")
       /\ (result.outcome.value = Fallback)
            <=> ~Mentions(q, {wToday, wCompare, wYesterday, wTop, wBest, wSelling, wWeek,
                              wChannel, wDelivery})

\* the request carries one user message, whose content is the prompt of this
\* call and names this call's user message
OneUserMessage(request, userMessage, userPrompt) ==
  /\ Len(request.messages) = 1
  /\ request.messages[1].role = "user"
  /\ request.messages[1].content = userPrompt
  /\ \A k \in 1..Len(request.messages) :
       request.messages[k].content.userMessage = userMessage

\* C23: each user turn (one call of processWithClaude) issues at most one
\* language-model request, that request carries exactly one user message, and
\* nothing from an earlier turn is carried into a later turn's request
C23_OneRequestPerTurn ==
  /\ pc = "fetching" => pending.requests = <<>>
  /\ pc = "asking" =>
       /\ Len(pending.requests) = 1
       /\ OneUserMessage(pending.requests[1], pending.userMessage, pending.userPrompt)
       /\ result.op = "processWithClaude" =>
            \A k \in 1..Len(pending.requests[1].messages) :
              pending.requests[1].messages[k] \notin
                {result.request.messages[j] : j \in 1..Len(result.request.messages)}
              \/ result.userMessage = pending.userMessage
  /\ result.op = "processWithClaude" =>
       /\ Len(result.requests) = 1
       /\ result.request = result.requests[1]
       /\ Len(result.request.messages) = 1
       /\ result.request.messages[1].role = "user"
       /\ ContentOf(result.request).userMessage = result.userMessage
  /\ pc = "idle" => pending = NoPending

\* the request of a later turn has been sent while the reply to an earlier
\* turn, about another message, is still at hand
C23_Witness ==
  /\ pc = "asking"
  /\ result.op = "processWithClaude"
  /\ result.userMessage # pending.userMessage
  /\ Len(pending.requests) = 1
  /\ pending.requests[1].messages = <<[role |-> "user", content |-> pending.userPrompt]>>
  /\ pending.userPrompt.kind = "live"

\* C26: when POS is configured and all three data fetches of processWithClaude
\* fail, the language-model request is still issued after all three branches
\* have settled, and its user prompt is exactly the original user message,
\* with no data block and no failure note
C26_AllFailedPlainPrompt ==
  /\ (pc = "asking" /\ pending.todayMetrics.settled # "none") =>
       /\ pending.todayMetrics.settled = "fulfilled"
       /\ pending.topProducts.settled = "fulfilled"
       /\ pending.comparison.settled = "fulfilled"
  /\ (pc = "fetching" /\ "pending" \in {pending.todayMetrics.settled, pending.topProducts.settled,
                                       pending.comparison.settled}) =>
       Len(pending.requests) = 0
  /\ (Fetched(result) /\ Failed(result.todayMetrics) /\ Failed(result.topProducts)
        /\ Failed(result.comparison)) =>
       /\ lightspeedIntelligence = "instance"
       /\ Len(result.requests) = 1
       /\ ContentOf(result.request) = [kind |-> "plain", userMessage |-> result.userMessage]
       /\ DOMAIN ContentOf(result.request) \cap {"businessData", "note", "message"} = {}

\* the three fetches failed and the language model answered the bare question
C26_Witness ==
  /\ Fetched(result)
  /\ Failed(result.todayMetrics) /\ Failed(result.topProducts) /\ Failed(result.comparison)
  /\ ContentOf(result.request).kind = "plain"
  /\ result.response.settled = "fulfilled"
  /\ result.outcome.value.says = "answer"

RECURSIVE SumCounts(_, _)
SumCounts(counts, keys) ==
  IF keys = {} THEN 0
  ELSE LET k == CHOOSE x \in keys : TRUE IN counts[k] + SumCounts(counts, keys \ {k})

ChannelNames == {"In-Store", "UberEats", "DoorDash", "GrubHub", "CityHive"}

\* C25: in every getSalesMetrics result the sum of the 24 hourly counts equals
\* totalTransactions and equals the sum of the channel counts, and every
\* channel key is one of In-Store, UberEats, DoorDash, GrubHub, CityHive
C25_CountsAgree ==
  \A r \in MetricsResults :
    /\ DOMAIN r.metrics.hourly = 0..(HoursInDay - 1)
    /\ SumCounts(r.metrics.hourly, DOMAIN r.metrics.hourly) = r.metrics.totalTransactions
    /\ SumCounts(r.metrics.channels, DOMAIN r.metrics.channels) = r.metrics.totalTransactions
    /\ DOMAIN r.metrics.channels \subseteq ChannelNames
    /\ \A c \in DOMAIN r.metrics.channels : r.metrics.channels[c] >= 1

\* a comparison whose previous window holds two counted sales of two channels
C25_Witness ==
  /\ result.op = "getComparison"
  /\ result.current.metrics.totalTransactions = 1
  /\ result.previous.metrics.totalTransactions = 2
  /\ Cardinality(DOMAIN result.previous.metrics.channels) = 2

\* what the query of a finished request returns when it runs alone and the
\* POS gives it the answers this request was given
RunAlone(call) ==
  LET metricsOf(i) == SalesMetricsOf(AsArray(call.responses[i].data, "Sale"),
                                     call.responses[i].dateRange, hostZone, isDST)
  IN IF call.op = "getSalesMetrics" THEN metricsOf(1)
     ELSE IF call.op = "getTopProducts"
       THEN TopProductsOf(AsArray(call.responses[1].data, "Sale"), call.limit)
     ELSE [current |-> metricsOf(1), previous |-> metricsOf(2),
           comparison |-> ComparisonOf(metricsOf(1), metricsOf(2))]

\* C24: however two requests interleave at their awaits, what each query
\* returns (metrics, ranking or comparison) is what the same query returns
\* alone on the answers the POS gave to that request; the instance is not
\* written
C24_RequestsIsolated ==
  /\ lightspeedIntelligence = "instance"
  /\ \A r \in Requests :
       pc[r] = "done" => pending[r].returned = RunAlone(pending[r])

\* the second request started while the first was in flight, the POS gave the
\* two different answers for the same day, and both have returned
C24_Witness ==
  /\ pc[1] = "done" /\ pc[2] = "done"
  /\ pending[2].overlapped
  /\ pending[1].op = "getComparison"
  /\ pending[2].op = "getSalesMetrics"
  /\ pending[2].responses[1].dateRange = pending[1].responses[1].dateRange
  /\ pending[2].responses[1].data.count # pending[1].responses[1].data.count
  /\ pending[2].returned # pending[1].returned.current
====
